---- MODULE Spec2Model ----
(***************************************************************************)
(* A model of the ATMX market engine: the LMSR pricer, the correlation     *)
(* position limiter, the in-memory store and the trade service.            *)
(*                                                                         *)
(* Decimals.  Quantities are whole shares (integers).  Prices, costs and   *)
(* fill prices are decimals rounded to PriceScale = 8 places and are       *)
(* carried as integers in units of 1e-8 ("E8").                            *)
(*                                                                         *)
(* Floating point.  The pricer converts its inputs to float64, calls       *)
(* math.Exp and math.Log and rounds the result to 8 places.  For the       *)
(* liquidity values of the model (b = 1 and b = 2) and integer quantities  *)
(* the float64 results of the code's formulas are tabulated:               *)
(*   SoftmaxE9_b*  expYes / (expYes + expNo), the unrounded float64 price, *)
(*                 cut to 9 places, indexed by qYes - qNo in -24 .. 24;    *)
(*   LogSumE8_b*   Round8(b * ln(sum)) of logSumExp after the maximum is   *)
(*                 taken out, indexed by |qYes - qNo| in 0 .. 24.          *)
(* Rounding the 9-place cut to 8 places gives the code's Round(8) of the   *)
(* float64 price, and max(qYes, qNo) + LogSumE8 gives the code's rounded   *)
(* Cost, for every pair of quantities in the tabulated range.              *)
(***************************************************************************)
EXTENDS Integers, Sequences, FiniteSets, TLC

\* ------------------------------------------------------------------ bounds

\* Cap on the number of ledger entries a behaviour appends.
MaxLedger == 2
\* The limiter's configuration (the arguments of NewPositionLimiter), in shares.
MaxPerCell == 4
MaxCorrelated == 6
PrefixLen == 2
\* The capacity of WSHub.broadcast (256 in NewWSHub), reduced so that the
\* trades of a behaviour can fill it.
QueueCap == 1
\* Cap on the number of trades of a behaviour of the hub's specification:
\* one message in the worker's hands, a full channel, and one more.
MaxHubTrades == 3

\* ------------------------------------------------------- program constants

\* MinPrice = 0.001 and MaxPrice = 0.999, in E8.
MinPrice == 100000
MaxPrice == 99900000
\* decimal.NewFromInt(1) and decimal.NewFromFloat(0.5), in E8.
One == 100000000
Half == 50000000
\* The default liquidity of CreateMarket.
DefaultB == 100

\* ----------------------------------------------------------------- decimal

Abs(x) == IF x < 0 THEN -x ELSE x

MaxOf(x, y) == IF x > y THEN x ELSE y

\* a / d rounded half away from zero (decimal.Div, then Round).
RoundDiv(a, d) ==
    LET n == Abs(a)
        m == Abs(d)
        q == (n \div m) + (IF 2 * (n % m) >= m THEN 1 ELSE 0)
    IN  IF (a < 0) = (d < 0) THEN q ELSE -q

\* --------------------------------------------------- float64 tables (see top)

SoftmaxE9_b1 ==
    << 0, 0, 0, 0, 2, 5,
       15, 41, 112, 305, 831, 2260,
       6144, 16701, 45397, 123394, 335350, 911051,
       2472623, 6692850, 17986209, 47425873, 119202922, 268941421,
       500000000, 731058578, 880797077, 952574126, 982013790, 993307149,
       997527376, 999088948, 999664649, 999876605, 999954602, 999983298,
       999993855, 999997739, 999999168, 999999694, 999999887, 999999958,
       999999984, 999999994, 999999997, 999999999, 999999999, 999999999,
       999999999 >>

LogSumE8_b1 ==
    << 69314718, 31326169, 12692801, 4858735, 1814993, 671535,
       247569, 91147, 33541, 12340, 4540, 1670,
       614, 226, 83, 31, 11, 4,
       2, 1, 0, 0, 0, 0,
       0 >>

SoftmaxE9_b2 ==
    << 6144, 10129, 16701, 27535, 45397, 74846,
       123394, 203426, 335350, 552778, 911051, 1501182,
       2472623, 4070137, 6692850, 10986942, 17986209, 29312230,
       47425873, 75858180, 119202922, 182425523, 268941421, 377540668,
       500000000, 622459331, 731058578, 817574476, 880797077, 924141819,
       952574126, 970687769, 982013790, 989013057, 993307149, 995929862,
       997527376, 998498817, 999088948, 999447221, 999664649, 999796573,
       999876605, 999925153, 999954602, 999972464, 999983298, 999989870,
       999993855 >>

LogSumE8_b2 ==
    << 138629436, 94815397, 62652338, 40282656, 25385602, 15777947,
       9717470, 5950084, 3629986, 2209549, 1343070, 815689,
       495137, 300462, 182293, 110586, 67081, 40690,
       24680, 14970, 9080, 5507, 3340, 2026,
       1229 >>

\* ------------------------------------------------------------ model values

Users == {"u1", "u2"}
\* user_id values a request may carry ("" is the missing field).
UserInputs == Users \cup {""}
Sides == {"YES", "NO"}
SideInputs == Sides \cup {"MAYBE"}
\* Quantities a request may carry: signed, positive = buy, negative = sell.
QtyInputs == {-4, 0, 2, 4}

\* H3 cell ids are strings of hex digits, here sequences of characters.
CellAB1 == <<"a", "b", "1">>
CellAB2 == <<"a", "b", "2">>
CellCD1 == <<"c", "d", "1">>
NoCell == << >>

TickerA == "ATMX-ab1-PRECIP-25MM-20250815"
TickerB == "ATMX-ab2-TEMP-30C-20250815"
TickerC == "ATMX-cd1-WIND-15MS-20250815"
\* A second contract on the cell of TickerA.
TickerD == "ATMX-ab1-TEMP-30C-20250815"
BadTicker == "BTC-ab1-PRECIP-25MM-20250815"
Tickers == {TickerA, TickerB, TickerC, TickerD}
TickerInputs == Tickers \cup {BadTicker}
\* The market-creation requests: a ticker and a liquidity b.
CreateInputs ==
    {<<TickerA, 1>>, <<TickerB, 2>>, <<TickerC, 1>>, <<TickerD, 2>>,
     <<BadTicker, 1>>}

\* The result of ParseTicker on the tickers above: the cell, or an error.
ParseTicker(ticker) ==
    CASE ticker = TickerA -> [err |-> "", h3CellID |-> CellAB1]
      [] ticker = TickerB -> [err |-> "", h3CellID |-> CellAB2]
      [] ticker = TickerC -> [err |-> "", h3CellID |-> CellCD1]
      [] ticker = TickerD -> [err |-> "", h3CellID |-> CellAB1]
      [] OTHER ->
           [err |-> "contract: invalid ticker format: " \o ticker
                      \o " (expected ATMX-{h3cell}-{type}-{threshold}-{YYYYMMDD})",
            h3CellID |-> NoCell]

\* -------------------------------------------------------------------- lmsr

ErrInvalidLiquidity == "lmsr: liquidity parameter b must be positive"
ErrPriceBoundExceeded == "lmsr: trade would push price beyond allowed bounds"

\* NewMarketMaker: the error, "" for nil.
NewMarketMaker(b) == IF b <= 0 THEN ErrInvalidLiquidity ELSE ""

\* expYes / (expYes + expNo) in float64, cut to 9 places.
SoftmaxE9(b, qYes, qNo) ==
    LET tbl == IF b = 1 THEN SoftmaxE9_b1 ELSE SoftmaxE9_b2
    IN  tbl[(qYes - qNo) + (Len(tbl) + 1) \div 2]

\* Round8(b * ln(exp(qYes/b - m) + exp(qNo/b - m))), m the maximum.
LogSumE8(b, qYes, qNo) ==
    LET tbl == IF b = 1 THEN LogSumE8_b1 ELSE LogSumE8_b2
    IN  tbl[Abs(qYes - qNo) + 1]

\* Cost: b * logSumExp(qYes/b, qNo/b), rounded to 8 places.
Cost(b, qYes, qNo) == MaxOf(qYes, qNo) * One + LogSumE8(b, qYes, qNo)

\* Price: the YES price rounded to 8 places and clamped.
Price(b, qYes, qNo) ==
    LET result == RoundDiv(SoftmaxE9(b, qYes, qNo), 10)
    IN  IF result < MinPrice THEN MinPrice
        ELSE IF result > MaxPrice THEN MaxPrice
        ELSE result

\* A NO price that is the YES price once more.
PriceNo_asYes(b, qYes, qNo) == Price(b, qYes, qNo)

PriceNo(b, qYes, qNo) == One - Price(b, qYes, qNo)

\* A trade cost of deltaYes shares at the price before the trade.
TradeCost_marginal(b, qYes, qNo, deltaYes) == deltaYes * Price(b, qYes, qNo)

TradeCost(b, qYes, qNo, deltaYes) ==
    LET costBefore == Cost(b, qYes, qNo)
        costAfter == Cost(b, qYes + deltaYes, qNo)
    IN  costAfter - costBefore

TradeCostNo(b, qYes, qNo, deltaNo) == TradeCost(b, qNo, qYes, deltaNo)

FillPrice(b, qFirst, qSecond, delta) ==
    IF delta = 0 THEN Price(b, qFirst, qSecond)
    ELSE RoundDiv(TradeCost(b, qFirst, qSecond, delta), delta)

\* MaxLoss: b * math.Log(2) in float64, rounded to 8 places.
MaxLoss(b) == IF b = 1 THEN 69314718 ELSE 138629436

\* A validation that tests the upper bound only.
validatePriceAfterTrade_upper(b, newQYes, newQNo) ==
    IF SoftmaxE9(b, newQYes, newQNo) > MaxPrice * 10
    THEN ErrPriceBoundExceeded
    ELSE ""

\* validatePriceAfterTrade compares the unrounded float64 price with the
\* float64 bounds.
validatePriceAfterTrade(b, newQYes, newQNo) ==
    LET price == SoftmaxE9(b, newQYes, newQNo)
    IN  IF price < MinPrice * 10 \/ price > MaxPrice * 10
        THEN ErrPriceBoundExceeded
        ELSE ""

ValidateTrade(b, qYes, qNo, deltaYes) ==
    validatePriceAfterTrade(b, qYes + deltaYes, qNo)

ValidateTradeNo(b, qYes, qNo, deltaNo) ==
    validatePriceAfterTrade(b, qYes, qNo + deltaNo)

\* ------------------------------------------------------------- correlation

ErrPerCellLimitExceeded == "correlation: per-cell position limit exceeded"
ErrCorrelatedLimitExceeded == "correlation: correlated exposure limit exceeded"

\* A Go map read: the zero value for a missing key (and for a nil map).
MapGet(m, k) == IF k \in DOMAIN m THEN m[k] ELSE 0

EmptyMap == [c \in {} |-> 0]

\* NewPositionLimiter raises a prefix length below 1 to 1.
LimiterPrefixLen == IF PrefixLen < 1 THEN 1 ELSE PrefixLen

\* A prefix that is the whole cell id.
cellPrefix_whole(cellID, length) == cellID

cellPrefix(cellID, length) ==
    IF length >= Len(cellID) THEN cellID ELSE SubSeq(cellID, 1, length)

\* The loop of CheckLimit over the entries of existingExposures not yet
\* visited (todo), adding |exposure| of the cells that share the prefix.
RECURSIVE SumCorrelated(_, _, _, _)
SumCorrelated(targetCell, existingExposures, todo, totalCorrelated) ==
    IF todo = {} THEN totalCorrelated
    ELSE LET cellID == CHOOSE c \in todo : TRUE
             rest == todo \ {cellID}
         IN  IF cellID = targetCell
             THEN SumCorrelated(targetCell, existingExposures, rest, totalCorrelated)
             ELSE IF cellPrefix(cellID, LimiterPrefixLen) = cellPrefix(targetCell, LimiterPrefixLen)
             THEN SumCorrelated(targetCell, existingExposures, rest,
                                totalCorrelated + Abs(existingExposures[cellID]))
             ELSE SumCorrelated(targetCell, existingExposures, rest, totalCorrelated)

\* A CheckLimit whose per-cell test also refuses a position at the limit.
CheckLimit_atLimit(targetCell, exposureDelta, existingExposures) ==
    LET currentInCell == MapGet(existingExposures, targetCell)
        newPosition == currentInCell + exposureDelta
    IN  IF Abs(newPosition) >= MaxPerCell THEN ErrPerCellLimitExceeded
        ELSE IF SumCorrelated(targetCell, existingExposures,
                              DOMAIN existingExposures, Abs(newPosition))
                > MaxCorrelated
        THEN ErrCorrelatedLimitExceeded
        ELSE ""

\* A CheckLimit whose correlated total starts from the exposure before the
\* trade.
CheckLimit_staleTotal(targetCell, exposureDelta, existingExposures) ==
    LET currentInCell == MapGet(existingExposures, targetCell)
        newPosition == currentInCell + exposureDelta
    IN  IF Abs(newPosition) > MaxPerCell THEN ErrPerCellLimitExceeded
        ELSE IF SumCorrelated(targetCell, existingExposures,
                              DOMAIN existingExposures, Abs(currentInCell))
                > MaxCorrelated
        THEN ErrCorrelatedLimitExceeded
        ELSE ""

\* A CheckLimit without the per-cell test.
CheckLimit_noPerCell(targetCell, exposureDelta, existingExposures) ==
    LET currentInCell == MapGet(existingExposures, targetCell)
        newPosition == currentInCell + exposureDelta
    IN  IF SumCorrelated(targetCell, existingExposures,
                         DOMAIN existingExposures, Abs(newPosition))
             > MaxCorrelated
        THEN ErrCorrelatedLimitExceeded
        ELSE ""

\* CheckLimit: the error, "" for nil.
CheckLimit(targetCell, exposureDelta, existingExposures) ==
    LET currentInCell == MapGet(existingExposures, targetCell)
        newPosition == currentInCell + exposureDelta
    IN  IF Abs(newPosition) > MaxPerCell THEN ErrPerCellLimitExceeded
        ELSE IF SumCorrelated(targetCell, existingExposures,
                              DOMAIN existingExposures, Abs(newPosition))
                > MaxCorrelated
        THEN ErrCorrelatedLimitExceeded
        ELSE ""

\* ------------------------------------------------------------------- state

VARIABLES
    markets,    \* MemoryStore.markets: market id -> Market
    ledger,     \* MemoryStore.ledger: the sequence of LedgerEntry
    mu,         \* Service.mu: the request that holds it, NoReq when free
    req,        \* the ExecuteTrade requests in flight: locals and position
    clock,      \* the value the next time.Now() returns
    nextID,     \* the value the next uuid.New() returns
    reply,      \* the HTTP response the step just taken wrote, if any
    view,       \* the slice a ledger read handed to a caller of the store
    lim,        \* a direct call of CheckLimit: its arguments and result
    broadcast,  \* WSHub.broadcast: the messages in the buffered channel
    clients,    \* WSHub.clients: the registered connections
    worker,     \* the goroutine of WSHub.Run: its place and locals
    conn,       \* the websocket connections: their state and frames written
    calls,      \* the calls of WSHub.Broadcast so far, in call order
    rdb,        \* CachedStore.rdb: the cache, NoRdb when no cache is configured
    rd,         \* the read requests in flight through the store
    poolUp,     \* PostgresStore.pool: whether the database answers
    fn,         \* a direct call of a function of package contract or lmsr
    impl        \* the Store of main: "memory" or "postgres"

storeVars == <<markets, ledger>>
serviceVars == <<mu, req, clock, nextID, reply>>
hubVars == <<broadcast, clients, worker, conn, calls>>
cacheVars == <<rdb, rd>>
vars == <<markets, ledger, mu, req, clock, nextID, reply, view, lim,
          broadcast, clients, worker, conn, calls, rdb, rd, poolUp, fn,
          impl>>

Reqs == {1, 2}
NoReq == 0
\* No function is called directly.
NoCall == [name |-> ""]

NoMarket ==
    [id |-> 0, contractID |-> "", h3CellID |-> NoCell, qYes |-> 0, qNo |-> 0,
     b |-> 0, priceYes |-> 0, priceNo |-> 0, status |-> ""]

NoCompute ==
    [cost |-> 0, fillPrice |-> 0, newQYes |-> 0, newQNo |-> 0,
     newPriceYes |-> 0, newPriceNo |-> 0]

NoPosition == [yesQty |-> 0, noQty |-> 0, costBasis |-> 0, unrealizedPnL |-> 0]

\* A request slot with no request in ExecuteTrade.  pc is the place of the
\* handler; ctxDone says whether r.Context() is cancelled (the caller went
\* away or the 30 s timeout fired); the other fields are the inputs and the
\* locals of the handler.
IdleReq ==
    [pc |-> "idle", userID |-> "", contractID |-> "", side |-> "", quantity |-> 0,
     market |-> NoMarket, exposures |-> EmptyMap, calc |-> NoCompute,
     entryID |-> 0, ctxDone |-> FALSE]

\* No ledger read has handed out a slice.  backing says whether the slice
\* shares its array with MemoryStore.ledger; index is the ledger position of
\* each element.
NoView == [backing |-> "", index |-> << >>, entries |-> << >>]

\* No direct call of CheckLimit.
NoLim ==
    [targetCell |-> NoCell, exposureDelta |-> 0, existingExposures |-> EmptyMap,
     called |-> FALSE, err |-> ""]

\* The websocket connections of the model.
Conns == {"c1", "c2"}

\* No message: the zero WSMessage.  tradeID is not a field of the message:
\* it names the trade the message reports.
NoMsg ==
    [type |-> "", marketID |-> 0, contractID |-> "", h3CellID |-> NoCell,
     priceYes |-> 0, priceNo |-> 0, side |-> "", quantity |-> 0, tradeID |-> 0]

\* A frame damaged by a second writer on the connection.
Garbled == [NoMsg EXCEPT !.type = "garbled"]

\* The worker of the hub blocked in the select of Run.  In the range loop
\* msg is the message received, todo the clients still to visit, to the
\* connection of the WriteMessage in progress; garbled says that another
\* write to that connection ran into it.
IdleWorker ==
    [pc |-> "select", msg |-> NoMsg, todo |-> {}, to |-> "", garbled |-> FALSE,
     raced |-> FALSE, fault |-> ""]

\* A connection that has not reached the hub.  state is its place in
\* HandleWS and the hub; peer says how the remote end takes writes; frames
\* are the frames written to it.
NewConn ==
    [state |-> "new", peer |-> "reading", frames |-> << >>, closes |-> << >>]

\* No cache is configured.  With a cache, up says whether the cache server
\* answers, and market, contract and positions hold the entries under the
\* keys market:{id}, contract:{contractID} and positions:{userID}.
NoRdb ==
    [configured |-> FALSE, up |-> TRUE, market |-> EmptyMap,
     contract |-> EmptyMap, positions |-> EmptyMap]

\* The read requests of the model, and a slot with no read request: op is
\* the handler, id the market asked for, market the market read from the
\* primary store.
Readers == {1}
IdleReader == [pc |-> "idle", op |-> "", id |-> 0, market |-> NoMarket]

\* The process runs: no fatal error of the runtime has ended it.
Running == worker.pc # "crashed"

\* No response was written by the step just taken.
NoReply ==
    [op |-> "", code |-> 0, error |-> "", userID |-> "", contractID |-> "",
     side |-> "", quantity |-> 0, market |-> NoMarket, tradeID |-> 0,
     cost |-> 0, fillPrice |-> 0, position |-> NoPosition,
     positions |-> EmptyMap]

\* ------------------------------------------------------------ memory store

\* A CreateMarket that does not look for the contract.
StoreCreateMarket_unchecked(ms, m) ==
    [err |-> "", markets |-> (m.id :> m) @@ ms]

\* CreateMarket: rejects a contract that already has a market, else stores
\* a copy of m under its id.
StoreCreateMarket(ms, m) ==
    IF \E id \in DOMAIN ms : ms[id].contractID = m.contractID
    THEN [err |-> "market for contract " \o m.contractID \o " already exists",
          markets |-> ms]
    ELSE [err |-> "", markets |-> (m.id :> m) @@ ms]

\* GetMarket: a copy of the market, NoMarket when the id is unknown.
StoreGetMarket(ms, id) == IF id \in DOMAIN ms THEN ms[id] ELSE NoMarket

\* GetMarketByContract: a copy of a market of that contract, NoMarket when
\* there is none.
StoreGetMarketByContract(ms, contractID) ==
    IF \E id \in DOMAIN ms : ms[id].contractID = contractID
    THEN ms[CHOOSE id \in DOMAIN ms : ms[id].contractID = contractID]
    ELSE NoMarket

\* An UpdateMarketState that reports success and writes nothing.
StoreUpdateMarketState_lost(ms, id, qYes, qNo, priceYes, priceNo) ==
    [err |-> "", markets |-> ms]

\* UpdateMarketState: writes the four fields of the market in place.
StoreUpdateMarketState(ms, id, qYes, qNo, priceYes, priceNo) ==
    IF id \notin DOMAIN ms
    THEN [err |-> "market not found", markets |-> ms]
    ELSE [err |-> "",
          markets |-> [ms EXCEPT ![id].qYes = qYes, ![id].qNo = qNo,
                                 ![id].priceYes = priceYes,
                                 ![id].priceNo = priceNo]]

\* InsertLedgerEntry: appends a copy of the entry.
StoreInsertLedgerEntry(led, entry) == Append(led, entry)

\* A ledger read that hands out the store's own slice.
StoreGetLedgerEntriesByMarket_alias(led, marketID) ==
    [backing |-> "ledger", index |-> [i \in 1..Len(led) |-> i], entries |-> led]

\* GetLedgerEntriesByMarket: the entries of the market, copied one by one
\* into a new slice.
StoreGetLedgerEntriesByMarket(led, marketID) ==
    LET index == SelectSeq([i \in 1..Len(led) |-> i],
                           LAMBDA i : led[i].marketID = marketID)
    IN  [backing |-> "fresh", index |-> index,
         entries |-> [k \in 1..Len(index) |-> led[index[k]]]]

\* GetLedgerEntriesByUser: the entries of the user, copied one by one into
\* a new slice.
StoreGetLedgerEntriesByUser(led, userID) ==
    LET index == SelectSeq([i \in 1..Len(led) |-> i],
                           LAMBDA i : led[i].userID = userID)
    IN  [backing |-> "fresh", index |-> index,
         entries |-> [k \in 1..Len(index) |-> led[index[k]]]]

\* An aggregation that adds the cost of the YES entries only.
RECURSIVE AggregateLedger_yesCost(_, _, _)
AggregateLedger_yesCost(led, userID, agg) ==
    IF led = << >> THEN agg
    ELSE LET e == Head(led)
             pa == IF e.marketID \in DOMAIN agg THEN agg[e.marketID]
                   ELSE [marketID |-> e.marketID, contractID |-> e.contractID,
                         yesQty |-> 0, noQty |-> 0, costBasis |-> 0]
             pa2 == IF e.side = "YES"
                    THEN [pa EXCEPT !.yesQty = @ + e.quantity,
                                    !.costBasis = @ + e.cost]
                    ELSE [pa EXCEPT !.noQty = @ + e.quantity]
         IN  IF e.userID # userID
             THEN AggregateLedger_yesCost(Tail(led), userID, agg)
             ELSE AggregateLedger_yesCost(Tail(led), userID,
                                          (e.marketID :> pa2) @@ agg)

\* The first loop of GetUserPositions: one posAgg per market of the user's
\* entries, in ledger order.
RECURSIVE AggregateLedger(_, _, _)
AggregateLedger(led, userID, agg) ==
    IF led = << >> THEN agg
    ELSE LET e == Head(led)
             pa == IF e.marketID \in DOMAIN agg THEN agg[e.marketID]
                   ELSE [marketID |-> e.marketID, contractID |-> e.contractID,
                         yesQty |-> 0, noQty |-> 0, costBasis |-> 0]
             pa2 == IF e.side = "YES"
                    THEN [pa EXCEPT !.yesQty = @ + e.quantity,
                                    !.costBasis = @ + e.cost]
                    ELSE [pa EXCEPT !.noQty = @ + e.quantity,
                                    !.costBasis = @ + e.cost]
         IN  IF e.userID # userID
             THEN AggregateLedger(Tail(led), userID, agg)
             ELSE AggregateLedger(Tail(led), userID,
                                  (e.marketID :> pa2) @@ agg)

\* GetUserPositions: the positions of the user, here keyed by market id (the
\* code returns them as a list in map order).
StoreGetUserPositions(ms, led, userID) ==
    LET agg == AggregateLedger(led, userID, [m \in {} |-> 0])
    IN  [id \in DOMAIN agg |->
            LET pa == agg[id]
                priceYes == IF id \in DOMAIN ms THEN ms[id].priceYes ELSE Half
                h3Cell == IF id \in DOMAIN ms THEN ms[id].h3CellID ELSE NoCell
                priceNo == One - priceYes
                currentValue == priceYes * pa.yesQty + priceNo * pa.noQty
            IN  [userID |-> userID, marketID |-> pa.marketID,
                 contractID |-> pa.contractID, h3CellID |-> h3Cell,
                 yesQty |-> pa.yesQty, noQty |-> pa.noQty,
                 netQty |-> pa.yesQty - pa.noQty,
                 costBasis |-> pa.costBasis, currentValue |-> currentValue,
                 unrealizedPnL |-> currentValue - pa.costBasis]]

\* The loop of GetUserCellExposures over the positions not yet visited.
RECURSIVE AddExposures(_, _, _)
AddExposures(positions, todo, exposures) ==
    IF todo = {} THEN exposures
    ELSE LET id == CHOOSE i \in todo : TRUE
             p == positions[id]
         IN  IF p.h3CellID # NoCell
             THEN AddExposures(positions, todo \ {id},
                     (p.h3CellID :> (MapGet(exposures, p.h3CellID) + p.netQty))
                     @@ exposures)
             ELSE AddExposures(positions, todo \ {id}, exposures)

\* GetUserCellExposures: cell -> net exposure, for the cells of the user's
\* positions.
StoreGetUserCellExposures(ms, led, userID) ==
    LET positions == StoreGetUserPositions(ms, led, userID)
    IN  AddExposures(positions, DOMAIN positions, EmptyMap)

\* ------------------------------------------------------------ cached store

\* The store the service is given by main: the primary store alone, or
\* CachedStore around it.  Every operation below takes the cache c and gives
\* the cache after the call; with no cache configured it is the operation
\* of the primary store.

\* The error of a database call when the database does not answer.
ErrPool == "failed to connect to database"

\* The primary store: PostgresStore, or the memory store when no database
\* is configured.  A call of PostgresStore is one statement on the pool; it
\* returns the error of the pool and changes nothing when the database
\* does not answer.  The memory store has no such failure.  The tables
\* hold what the memory store holds.
PrimaryCreateMarket(ms, m) ==
    IF impl = "memory" \/ poolUp THEN StoreCreateMarket(ms, m)
    ELSE [err |-> ErrPool, markets |-> ms]

PrimaryGetMarket(ms, id) ==
    IF impl = "memory" \/ poolUp THEN StoreGetMarket(ms, id) ELSE NoMarket

PrimaryGetMarketByContract(ms, contractID) ==
    IF impl = "memory" \/ poolUp
    THEN StoreGetMarketByContract(ms, contractID) ELSE NoMarket

\* PostgresStore.UpdateMarketState: one UPDATE ... WHERE id = $1, of which
\* only the error of Exec is returned.  A statement that matches no row is
\* no error.
PostgresUpdateMarketState(ms, id, qYes, qNo, priceYes, priceNo) ==
    [err |-> "",
     markets |-> IF id \notin DOMAIN ms THEN ms
                 ELSE [ms EXCEPT ![id].qYes = qYes, ![id].qNo = qNo,
                                 ![id].priceYes = priceYes,
                                 ![id].priceNo = priceNo]]

\* The errors of the constraints of table ledger_entries.
ErrForeignKey == "violates foreign key constraint"
ErrPrimaryKey == "duplicate key value violates unique constraint"

\* PostgresStore.InsertLedgerEntry: one INSERT.  The table refuses an entry
\* of a market that is not in table markets and an entry whose id is taken.
PostgresInsertLedgerEntry(ms, led, entry) ==
    IF entry.marketID \notin DOMAIN ms
    THEN [err |-> ErrForeignKey, ledger |-> led]
    ELSE IF \E k \in 1..Len(led) : led[k].id = entry.id
    THEN [err |-> ErrPrimaryKey, ledger |-> led]
    ELSE [err |-> "", ledger |-> Append(led, entry)]

\* The orders in which ORDER BY timestamp may return the rows of the given
\* positions of the table: every arrangement in which no row comes before
\* a row of a smaller timestamp.  Rows of one timestamp come in any order.
OrderByTimestamp(led, rows) ==
    {ord \in [1..Cardinality(rows) -> rows] :
        /\ \A i, j \in DOMAIN ord : i # j => ord[i] # ord[j]
        /\ \A i, j \in DOMAIN ord :
              i < j => led[ord[i]].timestamp <= led[ord[j]].timestamp}

\* PostgresStore.GetLedgerEntriesByMarket: SELECT ... WHERE market_id = $1
\* ORDER BY timestamp, scanned into a new slice.  The results it may give.
PostgresGetLedgerEntriesByMarket(led, marketID) ==
    {[backing |-> "fresh", index |-> ord,
      entries |-> [k \in DOMAIN ord |-> led[ord[k]]]] :
        ord \in OrderByTimestamp(led, {i \in 1..Len(led) :
                                          led[i].marketID = marketID})}

\* PostgresStore.GetLedgerEntriesByUser: SELECT ... WHERE user_id = $1
\* ORDER BY timestamp, scanned into a new slice.  The results it may give.
PostgresGetLedgerEntriesByUser(led, userID) ==
    {[backing |-> "fresh", index |-> ord,
      entries |-> [k \in DOMAIN ord |-> led[ord[k]]]] :
        ord \in OrderByTimestamp(led, {i \in 1..Len(led) :
                                          led[i].userID = userID})}

PrimaryUpdateMarketState(ms, id, qYes, qNo, priceYes, priceNo) ==
    IF impl = "memory"
    THEN StoreUpdateMarketState(ms, id, qYes, qNo, priceYes, priceNo)
    ELSE IF poolUp
    THEN PostgresUpdateMarketState(ms, id, qYes, qNo, priceYes, priceNo)
    ELSE [err |-> ErrPool, markets |-> ms]

\* An InsertLedgerEntry whose INSERT is applied although the call fails.
PrimaryInsertLedgerEntry_applied(ms, led, entry) ==
    IF impl = "memory" \/ poolUp
    THEN [err |-> "", ledger |-> StoreInsertLedgerEntry(led, entry)]
    ELSE [err |-> ErrPool, ledger |-> Append(led, entry)]

PrimaryInsertLedgerEntry(ms, led, entry) ==
    IF impl = "memory"
    THEN [err |-> "", ledger |-> StoreInsertLedgerEntry(led, entry)]
    ELSE IF poolUp THEN PostgresInsertLedgerEntry(ms, led, entry)
    ELSE [err |-> ErrPool, ledger |-> led]

\* The results a ledger read of the primary store may give.  A read that
\* fails gives no slice.
PrimaryGetLedgerEntriesByMarket(led, marketID) ==
    IF impl = "memory" THEN {StoreGetLedgerEntriesByMarket(led, marketID)}
    ELSE IF poolUp THEN PostgresGetLedgerEntriesByMarket(led, marketID)
    ELSE {NoView}

PrimaryGetLedgerEntriesByUser(led, userID) ==
    IF impl = "memory" THEN {StoreGetLedgerEntriesByUser(led, userID)}
    ELSE IF poolUp THEN PostgresGetLedgerEntriesByUser(led, userID)
    ELSE {NoView}

PrimaryGetUserPositions(ms, led, userID) ==
    IF impl = "memory" \/ poolUp
    THEN [err |-> "", positions |-> StoreGetUserPositions(ms, led, userID)]
    ELSE [err |-> ErrPool, positions |-> EmptyMap]

PrimaryGetUserCellExposures(ms, led, userID) ==
    IF impl = "memory" \/ poolUp
    THEN [err |-> "", exposures |-> StoreGetUserCellExposures(ms, led, userID)]
    ELSE [err |-> ErrPool, exposures |-> EmptyMap]

\* A cache entry: the bytes stored and whether they decode.  json.Marshal
\* and json.Unmarshal of a Market or of a list of Position give back every
\* field of the model (decimals travel as exact strings), so an entry that
\* decodes holds the value that was stored; an entry damaged in the cache
\* does not decode.
Entry(data) == [decodes |-> TRUE, data |-> data]

\* rdb.Get: the entry under the key; no hit when the call errors (the
\* server does not answer) or the key is absent (redis.Nil).
RedisGet(c, kind, key) ==
    IF c.up /\ key \in DOMAIN c[kind]
    THEN [hit |-> TRUE, entry |-> c[kind][key]]
    ELSE [hit |-> FALSE, entry |-> Entry(0)]

\* rdb.Set: stores the entry; nothing when the call errors.  The result of
\* the call is not looked at.
RedisSet(c, kind, key, data) ==
    IF c.up THEN [c EXCEPT ![kind] = (key :> Entry(data)) @@ c[kind]]
    ELSE c

\* rdb.Del: removes the entry; nothing when the call errors.  The result of
\* the call is not looked at.
RedisDel(c, kind, key) ==
    IF c.up
    THEN [c EXCEPT ![kind] = [k \in DOMAIN c[kind] \ {key} |-> c[kind][k]]]
    ELSE c

\* cacheMarket: the market is stored under market:{id}.
cacheMarket(c, m) == RedisSet(c, "market", m.id, m)

\* CachedStore.CreateMarket.
CachedCreateMarket(c, ms, m) ==
    LET res == PrimaryCreateMarket(ms, m)
    IN  [err |-> res.err, markets |-> res.markets,
         rdb |-> IF c.configured /\ res.err = "" THEN cacheMarket(c, m)
                 ELSE c]

\* CachedStore.UpdateMarketState: the primary store is written, then
\* market:{id} is deleted.
CachedUpdateMarketState(c, ms, id, qYes, qNo, priceYes, priceNo) ==
    LET res == PrimaryUpdateMarketState(ms, id, qYes, qNo, priceYes, priceNo)
    IN  [err |-> res.err, markets |-> res.markets,
         rdb |-> IF c.configured /\ res.err = ""
                 THEN RedisDel(c, "market", id) ELSE c]

\* CachedStore.InsertLedgerEntry: the primary store is written, then
\* positions:{userID} of the entry's user is deleted.
CachedInsertLedgerEntry(c, ms, led, entry) ==
    LET res == PrimaryInsertLedgerEntry(ms, led, entry)
    IN  [err |-> res.err, ledger |-> res.ledger,
         rdb |-> IF c.configured /\ res.err = ""
                 THEN RedisDel(c, "positions", entry.userID) ELSE c]

\* A GetMarket that fails when the cache read fails.
CachedGetMarket_failing(c, ms, id) ==
    LET got == RedisGet(c, "market", id)
        m == PrimaryGetMarket(ms, id)
    IN  IF c.configured /\ got.hit /\ got.entry.decodes
        THEN [market |-> got.entry.data, rdb |-> c]
        ELSE IF (c.configured /\ (~c.up \/ got.hit)) \/ m = NoMarket
        THEN [market |-> NoMarket, rdb |-> c]
        ELSE [market |-> m,
              rdb |-> IF c.configured THEN cacheMarket(c, m) ELSE c]

\* CachedStore.GetMarket: the cached market when there is one that
\* decodes, else the market of the primary store, which is then cached.
CachedGetMarket(c, ms, id) ==
    LET got == RedisGet(c, "market", id)
        m == PrimaryGetMarket(ms, id)
    IN  IF c.configured /\ got.hit /\ got.entry.decodes
        THEN [market |-> got.entry.data, rdb |-> c]
        ELSE IF m = NoMarket
        THEN [market |-> NoMarket, rdb |-> c]
        ELSE [market |-> m,
              rdb |-> IF c.configured THEN cacheMarket(c, m) ELSE c]

\* CachedStore.GetMarketByContract: GetMarket of the cached id of the
\* contract when there is one, else the market of the primary store; the
\* market and the id of the contract are then cached.
CachedGetMarketByContract(c, ms, contractID) ==
    LET got == RedisGet(c, "contract", contractID)
        m == PrimaryGetMarketByContract(ms, contractID)
    IN  IF c.configured /\ got.hit
        THEN CachedGetMarket(c, ms, got.entry.data)
        ELSE IF m = NoMarket
        THEN [market |-> NoMarket, rdb |-> c]
        ELSE [market |-> m,
              rdb |-> IF c.configured
                      THEN RedisSet(cacheMarket(c, m), "contract",
                                    contractID, m.id)
                      ELSE c]

\* CachedStore.GetUserPositions: the cached positions when there are some
\* that decode, else the positions of the primary store, which are then
\* cached.
CachedGetUserPositions(c, ms, led, userID) ==
    LET got == RedisGet(c, "positions", userID)
        res == PrimaryGetUserPositions(ms, led, userID)
    IN  IF c.configured /\ got.hit /\ got.entry.decodes
        THEN [err |-> "", positions |-> got.entry.data, rdb |-> c]
        ELSE [err |-> res.err, positions |-> res.positions,
              rdb |-> IF c.configured /\ res.err = ""
                      THEN RedisSet(c, "positions", userID, res.positions)
                      ELSE c]

\* ----------------------------------------------------------- trade service

\* The trade requests: every valid combination, and one request for each
\* input validation failure.
TradeInputs ==
    {in \in UserInputs \X TickerInputs \X SideInputs \X QtyInputs :
        \/ in[1] # "" /\ in[3] \in Sides /\ in[4] # 0
        \/ in = <<"", TickerA, "YES", 2>>
        \/ in = <<"u1", TickerA, "MAYBE", 2>>
        \/ in = <<"u1", TickerA, "YES", 0>>}

\* uuid.New() for a market: a fresh id.  A stored market is the only one of
\* its ticker, so ids chosen by ticker are distinct.
MarketIDOf(ticker) ==
    CASE ticker = TickerA -> 1
      [] ticker = TickerB -> 2
      [] ticker = TickerC -> 3
      [] ticker = TickerD -> 4
      [] OTHER -> 5

\* A Lock() that returns at once, whoever holds the mutex.
MutexFree_always == TRUE

\* Service.mu.Lock() returns only when no request holds the mutex.
MutexFree == mu = NoReq

\* The input validation of ExecuteTrade: the message of the first check that
\* fails, "" when the request is valid.
ValidateRequest(userID, side, quantity) ==
    IF userID = "" THEN "user_id is required"
    ELSE IF side # "YES" /\ side # "NO" THEN "side must be YES or NO"
    ELSE IF quantity = 0 THEN "quantity must be non-zero"
    ELSE ""

\* A status check that lets every market through.
StatusCheck_skipped(market) == ""

\* The status check of ExecuteTrade on the market it read.
StatusCheck(market) ==
    IF market.status # "open" THEN "market is not open for trading" ELSE ""

\* A message that carries the prices of the market as it was read.
TradeMessage_oldPrices(rq) ==
    [type |-> "trade_executed", marketID |-> rq.market.id,
     contractID |-> rq.contractID, h3CellID |-> rq.market.h3CellID,
     priceYes |-> rq.market.priceYes, priceNo |-> rq.market.priceNo,
     side |-> rq.side, quantity |-> rq.quantity, tradeID |-> rq.entryID]

\* The trade_executed message of the request rq.
TradeMessage(rq) ==
    [type |-> "trade_executed", marketID |-> rq.market.id,
     contractID |-> rq.contractID, h3CellID |-> rq.market.h3CellID,
     priceYes |-> rq.calc.newPriceYes, priceNo |-> rq.calc.newPriceNo,
     side |-> rq.side, quantity |-> rq.quantity, tradeID |-> rq.entryID]

\* A Broadcast whose send has no default branch: it waits for room.
Broadcast_blocking(ch, msg) ==
    [returned |-> Len(ch) < QueueCap, queued |-> TRUE,
     broadcast |-> Append(ch, msg)]

\* WSHub.Broadcast on the channel ch: the select sends the message when the
\* channel has room and takes the default branch when it is full.  returned
\* says whether the call returns, queued whether the message was sent.
Broadcast(ch, msg) ==
    [returned |-> TRUE, queued |-> Len(ch) < QueueCap,
     broadcast |-> IF Len(ch) < QueueCap THEN Append(ch, msg) ELSE ch]

\* writeError of ExecuteTrade for the request rq.
TradeError(rq, code, error) ==
    [NoReply EXCEPT !.op = "ExecuteTrade", !.code = code, !.error = error,
                    !.userID = rq.userID, !.contractID = rq.contractID,
                    !.side = rq.side, !.quantity = rq.quantity,
                    !.market = rq.market]

\* The exposure delta of a trade: +quantity for YES, -quantity for NO.
ExposureDelta(side, quantity) == IF side = "NO" THEN -quantity ELSE quantity

\* The price-bound validation of ExecuteTrade for the market copy it read.
ValidateSide(market, side, quantity) ==
    IF side = "YES"
    THEN ValidateTrade(market.b, market.qYes, market.qNo, quantity)
    ELSE ValidateTradeNo(market.b, market.qYes, market.qNo, quantity)

\* A computation that stores the prices of the quantities before the trade.
ComputeTrade_oldPrices(market, side, quantity) ==
    LET b == market.b
        newQYes == IF side = "YES" THEN market.qYes + quantity ELSE market.qYes
        newQNo == IF side = "YES" THEN market.qNo ELSE market.qNo + quantity
    IN  [cost |-> IF side = "YES"
                  THEN TradeCost(b, market.qYes, market.qNo, quantity)
                  ELSE TradeCostNo(b, market.qYes, market.qNo, quantity),
         fillPrice |-> IF side = "YES"
                       THEN FillPrice(b, market.qYes, market.qNo, quantity)
                       ELSE FillPrice(b, market.qNo, market.qYes, quantity),
         newQYes |-> newQYes,
         newQNo |-> newQNo,
         newPriceYes |-> Price(b, market.qYes, market.qNo),
         newPriceNo |-> PriceNo(b, market.qYes, market.qNo)]

\* The cost, fill price, new quantities and new prices ExecuteTrade computes.
ComputeTrade(market, side, quantity) ==
    LET b == market.b
        newQYes == IF side = "YES" THEN market.qYes + quantity ELSE market.qYes
        newQNo == IF side = "YES" THEN market.qNo ELSE market.qNo + quantity
    IN  [cost |-> IF side = "YES"
                  THEN TradeCost(b, market.qYes, market.qNo, quantity)
                  ELSE TradeCostNo(b, market.qYes, market.qNo, quantity),
         fillPrice |-> IF side = "YES"
                       THEN FillPrice(b, market.qYes, market.qNo, quantity)
                       ELSE FillPrice(b, market.qNo, market.qYes, quantity),
         newQYes |-> newQYes,
         newQNo |-> newQNo,
         newPriceYes |-> Price(b, newQYes, newQNo),
         newPriceNo |-> PriceNo(b, newQYes, newQNo)]

\* NewWSHub, before any connection: no client, an empty channel, the worker
\* in its select.
InitHub ==
    /\ broadcast = << >>
    /\ clients = {}
    /\ worker = IdleWorker
    /\ conn = [c \in Conns |-> NewConn]
    /\ calls = << >>

\* main without REDIS_URL: the store is used without a cache.
InitNoCache ==
    /\ rdb = NoRdb
    /\ rd = [k \in Readers |-> IdleReader]
    /\ poolUp = TRUE
    /\ fn = NoCall
    /\ impl = "memory"

Init ==
    /\ markets = [id \in {} |-> NoMarket]
    /\ ledger = << >>
    /\ mu = NoReq
    /\ req = [r \in Reqs |-> IdleReq]
    /\ clock = 1
    /\ nextID = 1
    /\ reply = NoReply
    /\ view = NoView
    /\ lim = NoLim
    /\ InitHub
    /\ InitNoCache

\* The liquidity of a new market: the b of the request, or the default when
\* that is not positive.
LiquidityOrDefault_zeroOnly(bIn) == IF bIn = 0 THEN DefaultB ELSE bIn

LiquidityOrDefault(bIn) == IF bIn <= 0 THEN DefaultB ELSE bIn

\* POST /markets: Service.CreateMarket.  It takes no mutex of the service,
\* so a market may appear while a trade is in its body.  A request that is
\* refused writes nothing: it commutes with the steps of a trade and is
\* taken when no trade is in its body.  Market.CreatedAt is not modelled.
\* Requests stop when the ledger has reached its bound.
CreateMarketWithID(id, ticker, bIn) ==
    LET parsed == ParseTicker(ticker)
        b == LiquidityOrDefault(bIn)
        market == [id |-> id, contractID |-> ticker,
                   h3CellID |-> parsed.h3CellID, qYes |-> 0, qNo |-> 0,
                   b |-> b, priceYes |-> Half, priceNo |-> Half,
                   status |-> "open"]
        res == CachedCreateMarket(rdb, markets, market)
        answer(code, error, m) ==
            reply' = [NoReply EXCEPT !.op = "CreateMarket", !.code = code,
                                     !.error = error, !.contractID = ticker,
                                     !.market = m]
    IN  /\ Running
        /\ IF parsed.err # ""
           THEN answer(400, parsed.err, NoMarket) /\ markets' = markets
           ELSE IF NewMarketMaker(b) # ""
           THEN answer(400, NewMarketMaker(b), NoMarket) /\ markets' = markets
           ELSE IF res.err # ""
           THEN answer(409, res.err, NoMarket) /\ markets' = markets
           ELSE answer(201, "", market) /\ markets' = res.markets
        /\ rdb' = IF markets' = markets THEN rdb ELSE res.rdb
        /\ Len(ledger) < MaxLedger
        /\ markets' = markets => MutexFree
        /\ UNCHANGED <<ledger, mu, req, clock, nextID, view, lim, hubVars, rd, poolUp, fn, impl>>

\* The same, where the id that uuid.New() gives the market of a ticker is
\* fixed in advance.
CreateMarket(ticker, bIn) == CreateMarketWithID(MarketIDOf(ticker), ticker, bIn)

\* POST /trade: the request is decoded and validated, and s.mu.Lock() is
\* taken.  A valid request waits for the mutex: the step is enabled when the
\* mutex is free.  An invalid request is answered 400 before the lock; it
\* reads and writes nothing shared, commutes with the steps of a trade, and
\* is taken when no trade is in its body.  The request slots are
\* interchangeable: a new request takes the first idle one.  Requests stop
\* when the trades accepted and in flight reach the bound given.
TradeBeginWithin(bound, r, userID, contractID, side, quantity) ==
    LET rq == [IdleReq EXCEPT !.userID = userID, !.contractID = contractID,
                              !.side = side, !.quantity = quantity]
        invalid == ValidateRequest(userID, side, quantity)
    IN  /\ Running
        /\ req[r].pc = "idle"
        /\ \A o \in Reqs : o < r => req[o].pc # "idle"
        /\ Len(ledger) + Cardinality({o \in Reqs : req[o].pc # "idle"})
             < bound
        /\ MutexFree
        /\ IF invalid # ""
           THEN /\ reply' = TradeError(rq, 400, invalid)
                /\ UNCHANGED <<req, mu>>
           ELSE /\ mu' = r
                /\ req' = [req EXCEPT ![r] = [rq EXCEPT !.pc = "getMarket"]]
                /\ reply' = NoReply
        /\ UNCHANGED <<markets, ledger, clock, nextID, view, lim, hubVars, cacheVars, poolUp, fn, impl>>

\* The same, up to the bound of the ledger.
TradeBegin(r, userID, contractID, side, quantity) ==
    TradeBeginWithin(MaxLedger, r, userID, contractID, side, quantity)

\* GetMarketByContract, the status check and NewMarketMaker.
TradeGetMarket(r) ==
    LET rq == req[r]
        got == CachedGetMarketByContract(rdb, markets, rq.contractID)
        market == got.market
        error == IF market = NoMarket
                 THEN <<404, "market not found for contract: " \o rq.contractID>>
                 ELSE IF StatusCheck(market) # ""
                 THEN <<409, StatusCheck(market)>>
                 ELSE IF NewMarketMaker(market.b) # ""
                 THEN <<500, "internal error: invalid market configuration">>
                 ELSE <<0, "">>
    IN  /\ Running
        /\ rq.pc = "getMarket"
        /\ IF error[1] # 0
           THEN /\ reply' = TradeError(rq, error[1], error[2])
                /\ req' = [req EXCEPT ![r] = IdleReq]
                /\ mu' = NoReq
           ELSE /\ reply' = NoReply
                /\ req' = [req EXCEPT ![r].pc = "getExposures",
                                      ![r].market = market]
                /\ mu' = mu
        /\ rdb' = got.rdb
        /\ UNCHANGED <<markets, ledger, clock, nextID, view, lim, hubVars, rd, poolUp, fn, impl>>

\* GetUserCellExposures.
TradeGetExposures(r) ==
    LET res == PrimaryGetUserCellExposures(markets, ledger, req[r].userID)
    IN  /\ Running
        /\ req[r].pc = "getExposures"
        /\ IF res.err # ""
           THEN /\ reply' = TradeError(req[r], 500,
                                       "failed to check position limits")
                /\ req' = [req EXCEPT ![r] = IdleReq]
                /\ mu' = NoReq
           ELSE /\ reply' = NoReply
                /\ req' = [req EXCEPT ![r].pc = "checkLimit",
                                      ![r].exposures = res.exposures]
                /\ mu' = mu
        /\ UNCHANGED <<markets, ledger, clock, nextID, view, lim, hubVars, cacheVars, poolUp, fn, impl>>

\* The two checks in the other order: the price bound first.
CheckLimitThenPrice_swapped(market, side, quantity, exposures) ==
    LET limitErr == CheckLimit(market.h3CellID, ExposureDelta(side, quantity),
                               exposures)
    IN  IF ValidateSide(market, side, quantity) # ""
        THEN ValidateSide(market, side, quantity)
        ELSE limitErr

\* The position limit check of ExecuteTrade, and after it the price-bound
\* validation: the error of the first that fails, "" when both pass.
CheckLimitThenPrice(market, side, quantity, exposures) ==
    LET limitErr == CheckLimit(market.h3CellID, ExposureDelta(side, quantity),
                               exposures)
    IN  IF limitErr # "" THEN limitErr
        ELSE ValidateSide(market, side, quantity)

\* A check that records the trade it rejects in the ledger.
TradeCheckLimit_recorded(r) ==
    LET rq == req[r]
        err == CheckLimitThenPrice(rq.market, rq.side, rq.quantity,
                                   rq.exposures)
        entry == [id |-> nextID, userID |-> rq.userID,
                  marketID |-> rq.market.id, contractID |-> rq.contractID,
                  side |-> rq.side, quantity |-> rq.quantity, price |-> 0,
                  cost |-> 0, timestamp |-> clock]
    IN  /\ Running
        /\ rq.pc = "checkLimit"
        /\ IF err # ""
           THEN /\ reply' = TradeError(rq, 409, err)
                /\ req' = [req EXCEPT ![r] = IdleReq]
                /\ mu' = NoReq
                /\ ledger' = Append(ledger, entry)
           ELSE /\ reply' = NoReply
                /\ req' = [req EXCEPT ![r].pc = "update",
                              ![r].calc = ComputeTrade(rq.market, rq.side,
                                                       rq.quantity)]
                /\ mu' = mu
                /\ ledger' = ledger
        /\ UNCHANGED <<markets, clock, nextID, view, lim, hubVars, cacheVars, poolUp, fn, impl>>

\* The position limit check, then the price-bound validation and the cost
\* computation: local steps on what the request has read.
TradeCheckLimit(r) ==
    LET rq == req[r]
        err == CheckLimitThenPrice(rq.market, rq.side, rq.quantity,
                                   rq.exposures)
    IN  /\ Running
        /\ rq.pc = "checkLimit"
        /\ IF err # ""
           THEN /\ reply' = TradeError(rq, 409, err)
                /\ req' = [req EXCEPT ![r] = IdleReq]
                /\ mu' = NoReq
           ELSE /\ reply' = NoReply
                /\ req' = [req EXCEPT ![r].pc = "update",
                              ![r].calc = ComputeTrade(rq.market, rq.side,
                                                       rq.quantity)]
                /\ mu' = mu
        /\ UNCHANGED <<markets, ledger, clock, nextID, view, lim, hubVars, cacheVars, poolUp, fn, impl>>

\* UpdateMarketState.
TradeUpdateMarket(r) ==
    LET rq == req[r]
        res == CachedUpdateMarketState(rdb, markets, rq.market.id,
                                       rq.calc.newQYes, rq.calc.newQNo,
                                       rq.calc.newPriceYes, rq.calc.newPriceNo)
    IN  /\ Running
        /\ rq.pc = "update"
        /\ markets' = res.markets
        /\ rdb' = res.rdb
        /\ IF res.err # ""
           THEN /\ reply' = TradeError(rq, 500, "failed to update market state")
                /\ req' = [req EXCEPT ![r] = IdleReq]
                /\ mu' = NoReq
           ELSE /\ reply' = NoReply
                /\ req' = [req EXCEPT ![r].pc = "insert"]
                /\ mu' = mu
        /\ UNCHANGED <<ledger, clock, nextID, view, lim, hubVars, rd, poolUp, fn, impl>>

\* The ledger entry is built (uuid.New(), time.Now()) and inserted.
TradeInsertLedger(r) ==
    LET rq == req[r]
        entry == [id |-> nextID, userID |-> rq.userID,
                  marketID |-> rq.market.id, contractID |-> rq.contractID,
                  side |-> rq.side, quantity |-> rq.quantity,
                  price |-> rq.calc.fillPrice, cost |-> rq.calc.cost,
                  timestamp |-> clock]
        res == CachedInsertLedgerEntry(rdb, markets, ledger, entry)
    IN  /\ Running
        /\ rq.pc = "insert"
        /\ ledger' = res.ledger
        /\ rdb' = res.rdb
        /\ IF res.err # ""
           THEN /\ reply' = TradeError(rq, 500, "failed to record trade")
                /\ req' = [req EXCEPT ![r] = IdleReq]
                /\ mu' = NoReq
                /\ UNCHANGED <<nextID, clock>>
           ELSE /\ reply' = NoReply
                /\ req' = [req EXCEPT ![r].pc = "respond",
                                      ![r].entryID = entry.id]
                /\ mu' = mu
                /\ nextID' = nextID + 1
                /\ clock' = clock + 1
        /\ UNCHANGED <<markets, view, lim, hubVars, rd, poolUp, fn, impl>>

\* GetUserPositions and the position summary of the traded market; the
\* message is handed to the hub, the 200 response is written and the
\* deferred s.mu.Unlock() runs.
TradeRespond(r) ==
    LET rq == req[r]
        sent == Broadcast(broadcast, TradeMessage(rq))
        got == CachedGetUserPositions(rdb, markets, ledger, rq.userID)
        positions == got.positions
        position == IF rq.market.id \in DOMAIN positions
                    THEN LET p == positions[rq.market.id]
                         IN  [yesQty |-> p.yesQty, noQty |-> p.noQty,
                              costBasis |-> p.costBasis,
                              unrealizedPnL |-> p.unrealizedPnL]
                    ELSE NoPosition
    IN  /\ Running
        /\ rq.pc = "respond"
        /\ sent.returned
        /\ broadcast' = sent.broadcast
        /\ calls' = Append(calls, [msg |-> TradeMessage(rq),
                                   queued |-> sent.queued])
        /\ reply' = [TradeError(rq, 200, "") EXCEPT
                        !.tradeID = rq.entryID, !.cost = rq.calc.cost,
                        !.fillPrice = rq.calc.fillPrice,
                        !.position = position]
        /\ req' = [req EXCEPT ![r] = IdleReq]
        /\ mu' = NoReq
        /\ rdb' = got.rdb
        /\ UNCHANGED <<markets, ledger, clock, nextID, view, lim, clients,
                       worker, conn, rd, poolUp, fn, impl>>

Next ==
    \/ \E in \in CreateInputs : CreateMarket(in[1], in[2])
    \/ \E r \in Reqs, in \in TradeInputs :
          TradeBegin(r, in[1], in[2], in[3], in[4])
    \/ \E r \in Reqs : TradeGetMarket(r)
    \/ \E r \in Reqs : TradeGetExposures(r)
    \/ \E r \in Reqs : TradeCheckLimit(r)
    \/ \E r \in Reqs : TradeUpdateMarket(r)
    \/ \E r \in Reqs : TradeInsertLedger(r)
    \/ \E r \in Reqs : TradeRespond(r)

Spec == Init /\ [][Next]_vars

\* ------------------------------------------- the service on the cached store

\* GET /portfolio/{userID}: Service.GetPortfolio.  It takes no mutex of the
\* service.  GetUserPositions is one call of the store; the totals of the
\* response are sums over the positions it returns and are not modelled.
GetPortfolio(userID) ==
    LET got == CachedGetUserPositions(rdb, markets, ledger, userID)
    IN  /\ Running
        /\ reply' = IF got.err # ""
                    THEN [NoReply EXCEPT !.op = "GetPortfolio", !.code = 500,
                                         !.error = "failed to load positions",
                                         !.userID = userID]
                    ELSE [NoReply EXCEPT !.op = "GetPortfolio", !.code = 200,
                                         !.userID = userID,
                                         !.positions = got.positions]
        /\ rdb' = got.rdb
        /\ UNCHANGED <<markets, ledger, mu, req, clock, nextID, view, lim,
                       hubVars, rd, poolUp, fn, impl>>

\* The response of GetMarket (the market) and of GetPrice (its two prices).
ReadResponse(op, id, m) ==
    [NoReply EXCEPT !.op = op, !.code = 200,
                    !.market = IF op = "GetPrice"
                               THEN [NoMarket EXCEPT !.id = id,
                                        !.priceYes = m.priceYes,
                                        !.priceNo = m.priceNo]
                               ELSE m]

\* GET /markets/{marketID} and GET /markets/{marketID}/price on the cached
\* store, call by call: the handlers take no mutex, so the calls of
\* CachedStore.GetMarket are steps between the steps of a trade.  First the
\* cache is read: a market that decodes is the response.
ReadGetMarket(k, op, id) ==
    LET got == RedisGet(rdb, "market", id)
    IN  /\ Running
        /\ rdb.configured
        /\ rd[k].pc = "idle"
        /\ IF got.hit /\ got.entry.decodes
           THEN /\ reply' = ReadResponse(op, id, got.entry.data)
                /\ rd' = rd
           ELSE /\ reply' = NoReply
                /\ rd' = [rd EXCEPT ![k] = [IdleReader EXCEPT
                                               !.pc = "primary", !.op = op,
                                               !.id = id]]
        /\ UNCHANGED <<markets, ledger, mu, req, clock, nextID, view, lim,
                       hubVars, rdb, poolUp, fn, impl>>

\* Then the primary store is read; an unknown market is answered 404.
ReadPrimary(k) ==
    LET m == PrimaryGetMarket(markets, rd[k].id)
    IN  /\ Running
        /\ rd[k].pc = "primary"
        /\ IF m = NoMarket
           THEN /\ reply' = [NoReply EXCEPT !.op = rd[k].op, !.code = 404,
                                            !.error = "market not found"]
                /\ rd' = [rd EXCEPT ![k] = IdleReader]
           ELSE /\ reply' = NoReply
                /\ rd' = [rd EXCEPT ![k].pc = "cacheMarket", ![k].market = m]
        /\ UNCHANGED <<markets, ledger, mu, req, clock, nextID, view, lim,
                       hubVars, rdb, poolUp, fn, impl>>

\* Then the market that was read is cached and is the response.
ReadCacheMarket(k) ==
    /\ Running
    /\ rd[k].pc = "cacheMarket"
    /\ rdb' = cacheMarket(rdb, rd[k].market)
    /\ reply' = ReadResponse(rd[k].op, rd[k].id, rd[k].market)
    /\ rd' = [rd EXCEPT ![k] = IdleReader]
    /\ UNCHANGED <<markets, ledger, mu, req, clock, nextID, view, lim, hubVars, poolUp, fn, impl>>

\* An entry reaches its time to live (30 s in main) and leaves the cache.
CacheExpire(kind, key) ==
    /\ Running
    /\ rdb.configured
    /\ key \in DOMAIN rdb[kind]
    /\ rdb' = [rdb EXCEPT ![kind] =
                  [k \in DOMAIN rdb[kind] \ {key} |-> rdb[kind][k]]]
    /\ reply' = NoReply
    /\ UNCHANGED <<markets, ledger, mu, req, clock, nextID, view, lim,
                   hubVars, rd, poolUp, fn, impl>>

\* The cache server stops answering, or answers again.
CacheUpDown ==
    /\ Running
    /\ rdb.configured
    /\ rdb' = [rdb EXCEPT !.up = ~rdb.up]
    /\ reply' = NoReply
    /\ UNCHANGED <<markets, ledger, mu, req, clock, nextID, view, lim,
                   hubVars, rd, poolUp, fn, impl>>

\* The bytes of an entry are damaged in the cache: they no longer decode.
CacheDamaged(kind, key) ==
    /\ Running
    /\ rdb.configured
    /\ key \in DOMAIN rdb[kind]
    /\ rdb[kind][key].decodes
    /\ rdb' = [rdb EXCEPT ![kind][key].decodes = FALSE]
    /\ reply' = NoReply
    /\ UNCHANGED <<markets, ledger, mu, req, clock, nextID, view, lim,
                   hubVars, rd, poolUp, fn, impl>>

\* main with DATABASE_URL and REDIS_URL: an empty cache around the store.
InitCache ==
    /\ markets = [id \in {} |-> NoMarket]
    /\ ledger = << >>
    /\ mu = NoReq
    /\ req = [r \in Reqs |-> IdleReq]
    /\ clock = 1
    /\ nextID = 1
    /\ reply = NoReply
    /\ view = NoView
    /\ lim = NoLim
    /\ InitHub
    /\ rdb = [NoRdb EXCEPT !.configured = TRUE]
    /\ rd = [k \in Readers |-> IdleReader]
    /\ poolUp = TRUE
    /\ fn = NoCall
    /\ impl = "postgres"

\* One market and two users: a trade of one user moves the price of a
\* market the other holds.
CacheCreateInputs == {<<TickerA, 1>>}
CacheTradeInputs == {<<"u1", TickerA, "YES", 2>>, <<"u2", TickerA, "YES", 2>>}
CacheReadInputs == {<<"GetMarket", 1>>, <<"GetPrice", 1>>}

NextCache ==
    \/ \E in \in CacheCreateInputs : CreateMarket(in[1], in[2])
    \/ \E r \in Reqs, in \in CacheTradeInputs :
          TradeBegin(r, in[1], in[2], in[3], in[4])
    \/ \E r \in Reqs : TradeGetMarket(r)
    \/ \E r \in Reqs : TradeGetExposures(r)
    \/ \E r \in Reqs : TradeCheckLimit(r)
    \/ \E r \in Reqs : TradeUpdateMarket(r)
    \/ \E r \in Reqs : TradeInsertLedger(r)
    \/ \E r \in Reqs : TradeRespond(r)
    \/ \E userID \in Users : GetPortfolio(userID)
    \/ \E k \in Readers, in \in CacheReadInputs : ReadGetMarket(k, in[1], in[2])
    \/ \E k \in Readers : ReadPrimary(k)
    \/ \E k \in Readers : ReadCacheMarket(k)
    \/ \E id \in DOMAIN rdb.market : CacheExpire("market", id)
    \/ \E userID \in DOMAIN rdb.positions : CacheExpire("positions", userID)
    \/ CacheUpDown
    \/ \E id \in DOMAIN rdb.market : CacheDamaged("market", id)
    \/ \E userID \in DOMAIN rdb.positions : CacheDamaged("positions", userID)

SpecCache == InitCache /\ [][NextCache]_vars

\* --------------------------------------------- the service on the database

\* GET /markets/{marketID} and GET /markets/{marketID}/price as one call of
\* the store: any error of GetMarket is answered 404.
GetMarket(op, id) ==
    LET got == CachedGetMarket(rdb, markets, id)
    IN  /\ Running
        /\ reply' = IF got.market = NoMarket
                    THEN [NoReply EXCEPT !.op = op, !.code = 404,
                                         !.error = "market not found"]
                    ELSE ReadResponse(op, id, got.market)
        /\ rdb' = got.rdb
        /\ UNCHANGED <<markets, ledger, mu, req, clock, nextID, view, lim,
                       hubVars, rd, poolUp, fn, impl>>

\* The settlement service marks a market settled: status goes from open to
\* settled and nothing else changes.
OracleSettles(id) ==
    /\ id \in DOMAIN markets
    /\ markets[id].status = "open"
    /\ markets' = [markets EXCEPT ![id].status = "settled"]
    /\ reply' = NoReply
    /\ UNCHANGED <<ledger, mu, req, clock, nextID, view, lim, hubVars, cacheVars, poolUp, fn, impl>>

\* The database stops answering (the connection is lost, the pool is
\* exhausted), or answers again.
PoolUpDown ==
    /\ Running
    /\ poolUp' = ~poolUp
    /\ reply' = NoReply
    /\ UNCHANGED <<markets, ledger, mu, req, clock, nextID, view, lim,
                   hubVars, cacheVars, fn, impl>>

\* One market on TickerA and none on TickerB; trades within the limits,
\* over the limit of a cell, of two users up to the price bound, and
\* without a user.
FaultyCreateInputs == {<<TickerA, 1>>}
FaultyTradeInputs ==
    {<<"u1", TickerA, "YES", 2>>, <<"u1", TickerB, "YES", 2>>,
     <<"u1", TickerA, "YES", 6>>, <<"", TickerA, "YES", 2>>,
     <<"u1", TickerA, "YES", 4>>, <<"u2", TickerA, "YES", 4>>}
FaultyReadInputs == {<<"GetMarket", 1>>, <<"GetPrice", 1>>}

\* main with DATABASE_URL and without REDIS_URL: the service on
\* PostgresStore, whose calls fail while the database does not answer.
NextFaulty ==
    \/ \E in \in FaultyCreateInputs : CreateMarket(in[1], in[2])
    \/ \E r \in Reqs, in \in FaultyTradeInputs :
          TradeBegin(r, in[1], in[2], in[3], in[4])
    \/ \E r \in Reqs : TradeGetMarket(r)
    \/ \E r \in Reqs : TradeGetExposures(r)
    \/ \E r \in Reqs : TradeCheckLimit(r)
    \/ \E r \in Reqs : TradeUpdateMarket(r)
    \/ \E r \in Reqs : TradeInsertLedger(r)
    \/ \E r \in Reqs : TradeRespond(r)
    \/ \E userID \in Users : GetPortfolio(userID)
    \/ \E in \in FaultyReadInputs : GetMarket(in[1], in[2])
    \/ \E id \in {1} : OracleSettles(id)
    \/ PoolUpDown

\* The service of main with DATABASE_URL set and no cache.
InitFaulty ==
    /\ markets = [id \in {} |-> NoMarket]
    /\ ledger = << >>
    /\ mu = NoReq
    /\ req = [r \in Reqs |-> IdleReq]
    /\ clock = 1
    /\ nextID = 1
    /\ reply = NoReply
    /\ view = NoView
    /\ lim = NoLim
    /\ InitHub
    /\ rdb = NoRdb
    /\ rd = [k \in Readers |-> IdleReader]
    /\ poolUp = TRUE
    /\ fn = NoCall
    /\ impl = "postgres"

SpecFaulty == InitFaulty /\ [][NextFaulty]_vars

\* ------------------------------------------------------- creating markets

\* The ids uuid.New() can give to a market: more than the markets of a
\* behaviour, and a new id each time.
MarketIDs == 1..3

\* POST /markets with every kind of b (absent or zero, negative, positive),
\* each on a ticker of its own, and a string that is not a ticker; trades on
\* the market of TickerA.
CreateBInputs ==
    {<<TickerA, 1>>, <<TickerB, 0>>, <<TickerC, -1>>, <<TickerD, 2>>,
     <<BadTicker, 1>>}
CreateTradeInputs == {<<"u1", TickerA, "YES", 2>>}

NextCreate ==
    \/ \E in \in CreateBInputs, id \in MarketIDs :
          id \notin DOMAIN markets /\ CreateMarketWithID(id, in[1], in[2])
    \/ \E r \in Reqs, in \in CreateTradeInputs :
          TradeBegin(r, in[1], in[2], in[3], in[4])
    \/ \E r \in Reqs : TradeGetMarket(r)
    \/ \E r \in Reqs : TradeGetExposures(r)
    \/ \E r \in Reqs : TradeCheckLimit(r)
    \/ \E r \in Reqs : TradeUpdateMarket(r)
    \/ \E r \in Reqs : TradeInsertLedger(r)
    \/ \E r \in Reqs : TradeRespond(r)

SpecCreate == Init /\ [][NextCreate]_vars

\* ------------------------------------- the trade service, request by request

\* The same service with every request followed from its arrival: a request
\* waits for the mutex, its context may be cancelled at any moment, a market
\* may be marked settled, and portfolio reads run beside the trades.  The
\* inputs are fewer: one market on TickerA, none on TickerB.
FineCreateInputs == {<<TickerA, 1>>}

FineTradeInputs ==
    {in \in TradeInputs :
        \/ ValidateRequest(in[1], in[3], in[4]) # ""
        \/ in[2] \in {TickerA, TickerB} /\ in[4] \in {-4, 4}}

\* POST /trade arrives: the body is decoded and validated.  An invalid
\* request is answered 400 at once, whoever holds the mutex; a valid one goes
\* on to s.mu.Lock().
TradeArrive(r, userID, contractID, side, quantity) ==
    LET rq == [IdleReq EXCEPT !.userID = userID, !.contractID = contractID,
                              !.side = side, !.quantity = quantity]
        invalid == ValidateRequest(userID, side, quantity)
    IN  /\ req[r].pc = "idle"
        /\ \A o \in Reqs : o < r => req[o].pc # "idle"
        /\ Len(ledger) + Cardinality({o \in Reqs : req[o].pc # "idle"})
             < MaxLedger
        /\ IF invalid # ""
           THEN /\ reply' = TradeError(rq, 400, invalid)
                /\ req' = req
           ELSE /\ req' = [req EXCEPT ![r] = [rq EXCEPT !.pc = "lock"]]
                /\ reply' = NoReply
        /\ UNCHANGED <<markets, ledger, mu, clock, nextID, view, lim, hubVars, cacheVars, poolUp, fn, impl>>

\* s.mu.Lock() returns: the request enters the body of ExecuteTrade.
TradeLock(r) ==
    /\ req[r].pc = "lock"
    /\ MutexFree
    /\ mu' = r
    /\ req' = [req EXCEPT ![r].pc = "getMarket"]
    /\ reply' = NoReply
    /\ UNCHANGED <<markets, ledger, clock, nextID, view, lim, hubVars, cacheVars, poolUp, fn, impl>>

\* The context of a request in flight is cancelled: the caller went away or
\* the request timeout fired.
ContextCancelled(r) ==
    /\ req[r].pc # "idle"
    /\ ~req[r].ctxDone
    /\ req' = [req EXCEPT ![r].ctxDone = TRUE]
    /\ reply' = NoReply
    /\ UNCHANGED <<markets, ledger, mu, clock, nextID, view, lim, hubVars, cacheVars, poolUp, fn, impl>>

NextFine ==
    \/ \E in \in FineCreateInputs : CreateMarket(in[1], in[2])
    \/ \E id \in 1..4 : OracleSettles(id)
    \/ \E r \in Reqs, in \in FineTradeInputs :
          TradeArrive(r, in[1], in[2], in[3], in[4])
    \/ \E r \in Reqs : TradeLock(r)
    \/ \E r \in Reqs : ContextCancelled(r)
    \/ \E userID \in Users : GetPortfolio(userID)
    \/ \E r \in Reqs : TradeGetMarket(r)
    \/ \E r \in Reqs : TradeGetExposures(r)
    \/ \E r \in Reqs : TradeCheckLimit(r)
    \/ \E r \in Reqs : TradeUpdateMarket(r)
    \/ \E r \in Reqs : TradeInsertLedger(r)
    \/ \E r \in Reqs : TradeRespond(r)

SpecFine == Init /\ [][NextFine]_vars

\* ------------------------------------------------------------ broadcast hub

\* The steps of the hub and of the connections touch nothing that a trade
\* reads or writes before its last step, the Broadcast: they commute with
\* the other steps of a trade and are taken when no trade is in its body.
HubTurn == Running /\ mu = NoReq

\* The ping goroutine of a connection is alive: it runs from the registration
\* until it finds the connection gone from h.clients.
Pinging(c) == conn[c].state \in {"open", "unregistering"} /\ c \in clients

\* GET /ws: HandleWS upgrades the request and blocks in h.register <- conn.
HandleWS(c) ==
    /\ HubTurn
    /\ conn[c].state = "new"
    /\ conn' = [conn EXCEPT ![c].state = "registering"]
    /\ reply' = NoReply
    /\ UNCHANGED <<markets, ledger, mu, req, clock, nextID, view, lim,
                   broadcast, clients, worker, calls, cacheVars, poolUp, fn, impl>>

\* Run, case conn := <-h.register.  HandleWS goes on and starts the read
\* pump and the ping ticker.
RunRegister(c) ==
    /\ HubTurn
    /\ worker.pc = "select"
    /\ conn[c].state = "registering"
    /\ clients' = clients \cup {c}
    /\ conn' = [conn EXCEPT ![c].state = "open"]
    /\ reply' = NoReply
    /\ UNCHANGED <<markets, ledger, mu, req, clock, nextID, view, lim,
                   broadcast, worker, calls, cacheVars, poolUp, fn, impl>>

\* The remote end stops reading: writes to the connection block.
PeerStalls(c) ==
    /\ HubTurn
    /\ conn[c].state \in {"registering", "open"}
    /\ conn[c].peer = "reading"
    /\ conn' = [conn EXCEPT ![c].peer = "stalled"]
    /\ reply' = NoReply
    /\ UNCHANGED <<markets, ledger, mu, req, clock, nextID, view, lim,
                   broadcast, clients, worker, calls, cacheVars, poolUp, fn, impl>>

\* The remote end goes away: writes to the connection fail.
PeerGone(c) ==
    /\ HubTurn
    /\ conn[c].state \in {"registering", "open"}
    /\ conn[c].peer # "gone"
    /\ conn' = [conn EXCEPT ![c].peer = "gone"]
    /\ reply' = NoReply
    /\ UNCHANGED <<markets, ledger, mu, req, clock, nextID, view, lim,
                   broadcast, clients, worker, calls, cacheVars, poolUp, fn, impl>>

\* The read pump of HandleWS: ReadMessage fails (the remote end is gone, the
\* read deadline passed without a pong, or the hub closed the connection)
\* and the deferred h.unregister <- conn blocks.
ReadPumpEnds(c) ==
    /\ HubTurn
    /\ conn[c].state = "open"
    /\ conn[c].peer # "reading" \/ c \notin clients
    /\ conn' = [conn EXCEPT ![c].state = "unregistering"]
    /\ reply' = NoReply
    /\ UNCHANGED <<markets, ledger, mu, req, clock, nextID, view, lim,
                   broadcast, clients, worker, calls, cacheVars, poolUp, fn, impl>>

\* An unregister that closes the connection whether or not it is a client.
RunUnregister_unchecked(c) ==
    /\ HubTurn
    /\ worker.pc = "select"
    /\ conn[c].state = "unregistering"
    /\ clients' = clients \ {c}
    /\ conn' = [conn EXCEPT ![c].state = "closed",
                            ![c].closes = Append(@, "unregister")]
    /\ reply' = NoReply
    /\ UNCHANGED <<markets, ledger, mu, req, clock, nextID, view, lim,
                   broadcast, worker, calls, cacheVars, poolUp, fn, impl>>

\* Run, case conn := <-h.unregister: the connection is deleted and closed
\* if it is still a client.  The read pump that sent the request has ended.
RunUnregister(c) ==
    /\ HubTurn
    /\ worker.pc = "select"
    /\ conn[c].state = "unregistering"
    /\ clients' = clients \ {c}
    /\ conn' = [conn EXCEPT ![c].state = "closed",
                            ![c].closes = IF c \in clients
                                          THEN Append(@, "unregister")
                                          ELSE @]
    /\ reply' = NoReply
    /\ UNCHANGED <<markets, ledger, mu, req, clock, nextID, view, lim,
                   broadcast, worker, calls, cacheVars, poolUp, fn, impl>>

\* A receive that leaves the message in the channel.
Receive_peek(ch) == [msg |-> Head(ch), rest |-> ch]

\* <-h.broadcast on a channel that holds a message: the oldest message is
\* taken out.
Receive(ch) == [msg |-> Head(ch), rest |-> Tail(ch)]

\* Run, case msg := <-h.broadcast: the range over h.clients starts.
RunReceive ==
    /\ HubTurn
    /\ worker.pc = "select"
    /\ broadcast # << >>
    /\ broadcast' = Receive(broadcast).rest
    /\ worker' = IF clients = {}
                 THEN IdleWorker
                 ELSE [IdleWorker EXCEPT !.pc = "range",
                                         !.msg = Receive(broadcast).msg,
                                         !.todo = clients]
    /\ reply' = NoReply
    /\ UNCHANGED <<markets, ledger, mu, req, clock, nextID, view, lim,
                   clients, conn, calls, cacheVars, poolUp, fn, impl>>

\* The range loop reaches a client, in any order, and calls
\* conn.WriteMessage.
RunWrite(c) ==
    /\ HubTurn
    /\ worker.pc = "range"
    /\ c \in worker.todo
    /\ worker' = [worker EXCEPT !.pc = "write", !.to = c,
                                !.todo = worker.todo \ {c}]
    /\ reply' = NoReply
    /\ UNCHANGED <<markets, ledger, mu, req, clock, nextID, view, lim,
                   broadcast, clients, conn, calls, cacheVars, poolUp, fn, impl>>

\* conn.WriteMessage returns.  To a reading peer the frame is written; to a
\* peer that is gone it fails, and the connection is closed and deleted
\* from h.clients; to a stalled peer it does not return.  The loop goes on,
\* or the worker is back in its select.
RunWritten ==
    LET c == worker.to
        frame == IF worker.garbled THEN Garbled ELSE worker.msg
        next == IF worker.todo = {}
                THEN IdleWorker
                ELSE [worker EXCEPT !.pc = "range", !.to = "",
                                    !.garbled = FALSE, !.raced = FALSE]
    IN  /\ HubTurn
        /\ worker.pc = "write"
        /\ conn[c].peer # "stalled"
        /\ IF conn[c].peer = "reading"
           THEN /\ conn' = [conn EXCEPT ![c].frames = Append(@, frame)]
                /\ clients' = clients
           ELSE /\ conn' = [conn EXCEPT ![c].closes = Append(@, "write")]
                /\ clients' = clients \ {c}
        /\ worker' = next
        /\ reply' = NoReply
        /\ UNCHANGED <<markets, ledger, mu, req, clock, nextID, view, lim,
                       broadcast, calls, cacheVars, poolUp, fn, impl>>

\* The ends of the process on a data race: the panic of the connection
\* and the fatal error of the runtime.
ErrConcurrentWrite == "concurrent write to websocket connection"
ErrConcurrentMap == "concurrent map read and map write"

\* The ping ticker of a connection fires while the worker is inside
\* WriteMessage on the same connection: two writers on one websocket
\* connection, which the connection does not support.  The frame in
\* progress comes out damaged, or the connection panics ("concurrent write
\* to websocket connection") and the process ends.
PingDuringWrite(c, outcome) ==
    /\ HubTurn
    /\ worker.pc = "write"
    /\ worker.to = c
    /\ Pinging(c)
    /\ ~worker.garbled
    /\ worker' = IF outcome = "panic"
                 THEN [IdleWorker EXCEPT !.pc = "crashed",
                                         !.fault = ErrConcurrentWrite]
                 ELSE [worker EXCEPT !.garbled = TRUE]
    /\ reply' = NoReply
    /\ UNCHANGED <<markets, ledger, mu, req, clock, nextID, view, lim,
                   broadcast, clients, conn, calls, cacheVars, poolUp, fn, impl>>

\* The ping ticker of a connection reads h.clients under the read lock
\* while the worker, also under the read lock, is about to delete a
\* connection whose write failed: a concurrent map read and map write.  The
\* runtime may end the process with a fatal error; otherwise nothing shows
\* but that the read ran into the write (raced).
PingDuringDelete(c, outcome) ==
    /\ HubTurn
    /\ worker.pc = "write"
    /\ conn[worker.to].peer = "gone"
    /\ Pinging(c)
    /\ ~worker.raced
    /\ worker' = IF outcome = "fatal"
                 THEN [IdleWorker EXCEPT !.pc = "crashed",
                                         !.fault = ErrConcurrentMap]
                 ELSE [worker EXCEPT !.raced = TRUE]
    /\ reply' = NoReply
    /\ UNCHANGED <<markets, ledger, mu, req, clock, nextID, view, lim,
                   broadcast, clients, conn, calls, cacheVars, poolUp, fn, impl>>

\* The service and the hub: two markets, one kind of trade on each, two
\* connections; the remote end of the first may stop reading, that of the
\* second may go away.
HubCreateInputs == {<<TickerA, 1>>, <<TickerC, 1>>}
HubTradeInputs == {<<"u1", TickerA, "YES", 2>>, <<"u1", TickerC, "YES", 2>>}

NextHub ==
    \/ \E in \in HubCreateInputs : CreateMarket(in[1], in[2])
    \/ \E r \in Reqs, in \in HubTradeInputs :
          TradeBeginWithin(MaxHubTrades, r, in[1], in[2], in[3], in[4])
    \/ \E r \in Reqs : TradeGetMarket(r)
    \/ \E r \in Reqs : TradeGetExposures(r)
    \/ \E r \in Reqs : TradeCheckLimit(r)
    \/ \E r \in Reqs : TradeUpdateMarket(r)
    \/ \E r \in Reqs : TradeInsertLedger(r)
    \/ \E r \in Reqs : TradeRespond(r)
    \/ \E c \in Conns : HandleWS(c)
    \/ \E c \in Conns : RunRegister(c)
    \/ \E c \in {"c1"} : PeerStalls(c)
    \/ \E c \in {"c2"} : PeerGone(c)
    \/ \E c \in Conns : ReadPumpEnds(c)
    \/ \E c \in Conns : RunUnregister(c)
    \/ RunReceive
    \/ \E c \in Conns : RunWrite(c)
    \/ RunWritten
    \/ \E c \in Conns, outcome \in {"panic", "garbled"} :
          PingDuringWrite(c, outcome)
    \/ \E c \in Conns, outcome \in {"fatal", "unnoticed"} :
          PingDuringDelete(c, outcome)

SpecHub == Init /\ [][NextHub]_vars

\* The hub with goroutines that are scheduled: one market, the trades of
\* one user on it, two connections.  A request inside ExecuteTrade and the
\* worker take the step they can take (for the worker a receive, a write of
\* the range, the return of a write, a registration, an unregistration);
\* nothing is assumed of the clients, the remote ends and the ping tickers.
LiveCreateInputs == {<<TickerA, 1>>}
LiveTradeInputs == {<<"u1", TickerA, "YES", 2>>}

NextHubLive ==
    \/ \E in \in LiveCreateInputs : CreateMarket(in[1], in[2])
    \/ \E r \in Reqs, in \in LiveTradeInputs :
          TradeBegin(r, in[1], in[2], in[3], in[4])
    \/ \E r \in Reqs : TradeGetMarket(r)
    \/ \E r \in Reqs : TradeGetExposures(r)
    \/ \E r \in Reqs : TradeCheckLimit(r)
    \/ \E r \in Reqs : TradeUpdateMarket(r)
    \/ \E r \in Reqs : TradeInsertLedger(r)
    \/ \E r \in Reqs : TradeRespond(r)
    \/ \E c \in Conns : HandleWS(c)
    \/ \E c \in Conns : RunRegister(c)
    \/ \E c \in {"c1"} : PeerStalls(c)
    \/ \E c \in {"c2"} : PeerGone(c)
    \/ \E c \in Conns : ReadPumpEnds(c)
    \/ \E c \in Conns : RunUnregister(c)
    \/ RunReceive
    \/ \E c \in Conns : RunWrite(c)
    \/ RunWritten
    \/ \E c \in Conns, outcome \in {"panic", "garbled"} :
          PingDuringWrite(c, outcome)
    \/ \E c \in Conns, outcome \in {"fatal", "unnoticed"} :
          PingDuringDelete(c, outcome)

\* A request that has entered ExecuteTrade runs to its response.
HandlersRun ==
    WF_vars(\E r \in Reqs :
               \/ TradeGetMarket(r) \/ TradeGetExposures(r)
               \/ TradeCheckLimit(r) \/ TradeUpdateMarket(r)
               \/ TradeInsertLedger(r) \/ TradeRespond(r))

WorkerRuns ==
    /\ WF_vars(RunReceive)
    /\ WF_vars(\E c \in Conns : RunWrite(c))
    /\ WF_vars(RunWritten)
    /\ WF_vars(\E c \in Conns : RunRegister(c))
    /\ WF_vars(\E c \in Conns : RunUnregister(c))

SpecHubLive == Init /\ [][NextHubLive]_vars /\ HandlersRun /\ WorkerRuns

\* ------------------------------------------------- the store, called directly

\* The store of main is the memory store or PostgresStore.  A direct call
\* leaves its name, its argument and the error it returned in fn.
InitStore ==
    /\ markets = [id \in {} |-> NoMarket]
    /\ ledger = << >>
    /\ mu = NoReq
    /\ req = [r \in Reqs |-> IdleReq]
    /\ clock = 1
    /\ nextID = 1
    /\ reply = NoReply
    /\ view = NoView
    /\ lim = NoLim
    /\ InitHub
    /\ rdb = NoRdb
    /\ rd = [k \in Readers |-> IdleReader]
    /\ poolUp = TRUE
    /\ fn = NoCall
    /\ impl \in {"memory", "postgres"}

\* The entries a caller of the store inserts: the user, the market and the
\* timestamp vary.
Timestamps == {1, 2}
EntryInputs == Users \X {1, 2} \X Timestamps

\* Store.InsertLedgerEntry called with a new entry.
StInsertLedgerEntry(userID, marketID, timestamp) ==
    LET entry == [id |-> nextID, userID |-> userID, marketID |-> marketID,
                  contractID |-> IF marketID = 1 THEN TickerA ELSE TickerB,
                  side |-> "YES", quantity |-> 2, price |-> Half, cost |-> One,
                  timestamp |-> timestamp]
        res == PrimaryInsertLedgerEntry(markets, ledger, entry)
    IN  /\ nextID <= MaxLedger
        /\ ledger' = res.ledger
        /\ nextID' = nextID + 1
        /\ fn' = [name |-> "InsertLedgerEntry", arg |-> marketID,
                  err |-> res.err]
        /\ UNCHANGED <<markets, mu, req, clock, reply, view, lim, hubVars, cacheVars, poolUp, impl>>

\* Store.CreateMarket called with a new market of the ticker.
StCreateMarket(ticker) ==
    LET market == [id |-> MarketIDOf(ticker), contractID |-> ticker,
                   h3CellID |-> ParseTicker(ticker).h3CellID,
                   qYes |-> 0, qNo |-> 0, b |-> 1,
                   priceYes |-> Half, priceNo |-> Half, status |-> "open"]
        res == PrimaryCreateMarket(markets, market)
    IN  /\ res.err = ""
        /\ markets' = res.markets
        /\ fn' = [name |-> "CreateMarket", arg |-> market.id, err |-> res.err]
        /\ UNCHANGED <<ledger, mu, req, clock, nextID, reply, view, lim, hubVars, cacheVars, poolUp, impl>>

\* The states a caller of the store writes: the id is of a market of the
\* model or of none.
UpdateInputs == {<<1, 2>>, <<3, 2>>}

\* Store.UpdateMarketState called with new quantities and prices.
StUpdateMarketState(id, qYes) ==
    LET res == PrimaryUpdateMarketState(markets, id, qYes, 0,
                                        Half + qYes, Half - qYes)
    IN  /\ markets' = res.markets
        /\ fn' = [name |-> "UpdateMarketState", arg |-> id, err |-> res.err]
        /\ UNCHANGED <<ledger, mu, req, clock, nextID, reply, view, lim, hubVars, cacheVars, poolUp, impl>>

\* Store.GetLedgerEntriesByMarket: the caller keeps the slice.
StGetLedgerEntriesByMarket(marketID) ==
    /\ view' \in PrimaryGetLedgerEntriesByMarket(ledger, marketID)
    /\ fn' = [name |-> "GetLedgerEntriesByMarket", arg |-> marketID,
              err |-> ""]
    /\ UNCHANGED <<markets, ledger, mu, req, clock, nextID, reply, lim, hubVars, cacheVars, poolUp, impl>>

\* Store.GetLedgerEntriesByUser: the caller keeps the slice.
StGetLedgerEntriesByUser(userID) ==
    /\ view' \in PrimaryGetLedgerEntriesByUser(ledger, userID)
    /\ fn' = [name |-> "GetLedgerEntriesByUser", arg |-> userID, err |-> ""]
    /\ UNCHANGED <<markets, ledger, mu, req, clock, nextID, reply, lim, hubVars, cacheVars, poolUp, impl>>

\* The caller overwrites element k of the slice it was handed.  The write
\* lands in the store's ledger when the slice shares its array.
CallerMutates(k) ==
    LET tampered == [view.entries[k] EXCEPT !.userID = "mallory",
                                            !.quantity = 0, !.cost = 0]
    IN  /\ k \in 1..Len(view.entries)
        /\ view.entries[k] # tampered
        /\ view' = [view EXCEPT !.entries[k] = tampered]
        /\ ledger' = IF view.backing = "ledger"
                     THEN [ledger EXCEPT ![view.index[k]] = tampered]
                     ELSE ledger
        /\ fn' = NoCall
        /\ UNCHANGED <<markets, mu, req, clock, nextID, reply, lim, hubVars, cacheVars, poolUp, impl>>

NextStore ==
    \/ \E ticker \in {TickerA, TickerB} : StCreateMarket(ticker)
    \/ \E in \in EntryInputs : StInsertLedgerEntry(in[1], in[2], in[3])
    \/ \E in \in UpdateInputs : StUpdateMarketState(in[1], in[2])
    \/ \E marketID \in {1, 2} : StGetLedgerEntriesByMarket(marketID)
    \/ \E userID \in Users : StGetLedgerEntriesByUser(userID)
    \/ \E k \in 1..MaxLedger : CallerMutates(k)

SpecStore == InitStore /\ [][NextStore]_vars

\* ----------------------------------------------- the limiter, called directly

\* A cell id as long as the prefix, in the group of CellAB1 and CellAB2.
CellAB == <<"a", "b">>
\* The cells of the exposure snapshots, and the target cells.
LimCells == {CellAB1, CellAB2, CellCD1, CellAB}
TargetInputs == LimCells \cup {NoCell}
DeltaInputs == {-6, -2, 0, 1, 2, 6}
\* The exposures a snapshot may hold for a cell; they need not be within
\* the limits.
ExposureInputs == {-3, 2, 5}
\* The snapshots: every map from some of the cells to an exposure; the map
\* of no cell is also the nil map.
SnapshotInputs == UNION {[S -> ExposureInputs] : S \in SUBSET LimCells}

\* The arguments of a call of CheckLimit that has not returned.
InitLimiter ==
    /\ markets = [id \in {} |-> NoMarket]
    /\ ledger = << >>
    /\ mu = NoReq
    /\ req = [r \in Reqs |-> IdleReq]
    /\ clock = 1
    /\ nextID = 1
    /\ reply = NoReply
    /\ view = NoView
    /\ lim \in [targetCell : TargetInputs, exposureDelta : DeltaInputs,
                 existingExposures : SnapshotInputs, called : {FALSE},
                 err : {""}]
    /\ InitHub
    /\ InitNoCache

\* PositionLimiter.CheckLimit returns.
LimCheckLimit ==
    /\ ~lim.called
    /\ lim' = [lim EXCEPT !.called = TRUE,
                          !.err = CheckLimit(lim.targetCell, lim.exposureDelta,
                                             lim.existingExposures)]
    /\ UNCHANGED <<markets, ledger, mu, req, clock, nextID, reply, view, hubVars, cacheVars, poolUp, fn, impl>>

NextLimiter == LimCheckLimit

SpecLimiter == InitLimiter /\ [][NextLimiter]_vars

\* ------------------------------------------- the ticker, parsed directly

\* A text is the sequence of its characters.
Digits == {"0", "1", "2", "3", "4", "5", "6", "7", "8", "9"}
HexLower == Digits \cup {"a", "b", "c", "d", "e", "f"}
Upper ==
    {"A", "B", "C", "D", "E", "F", "G", "H", "I", "J", "K", "L", "M", "N",
     "O", "P", "Q", "R", "S", "T", "U", "V", "W", "X", "Y", "Z"}
DigitValue ==
    [c \in Digits |->
        CASE c = "0" -> 0 [] c = "1" -> 1 [] c = "2" -> 2 [] c = "3" -> 3
          [] c = "4" -> 4 [] c = "5" -> 5 [] c = "6" -> 6 [] c = "7" -> 7
          [] c = "8" -> 8 [] c = "9" -> 9]

AllIn(t, class) == \A i \in 1..Len(t) : t[i] \in class

\* The number a text of digits writes.
RECURSIVE Atoi(_)
Atoi(t) ==
    IF t = << >> THEN 0
    ELSE 10 * Atoi(SubSeq(t, 1, Len(t) - 1)) + DigitValue[t[Len(t)]]

\* The parts of a text between the occurrences of sep.
RECURSIVE SplitOn(_, _)
SplitOn(t, sep) ==
    LET at == {i \in 1..Len(t) : t[i] = sep}
    IN  IF at = {} THEN <<t>>
        ELSE LET i == CHOOSE i \in at : \A j \in at : i <= j
             IN  <<SubSeq(t, 1, i - 1)>>
                   \o SplitOn(SubSeq(t, i + 1, Len(t)), sep)

TypePrecip == <<"P", "R", "E", "C", "I", "P">>
TypeTemp == <<"T", "E", "M", "P">>
TypeWind == <<"W", "I", "N", "D">>
TypeSnow == <<"S", "N", "O", "W">>
validTypes == {TypePrecip, TypeTemp, TypeWind, TypeSnow}

\* tickerRegex.FindStringSubmatch: the whole text and its four groups, or
\* nil.  No class of ^ATMX-([0-9a-f]+)-([A-Z]+)-([0-9]+[A-Z]*)-(\d{8})$ holds
\* the dash and the pattern is anchored at both ends, so a text matches when
\* its parts between the dashes are five and match one by one; $ without
\* the flag m matches at the end of the text only.
tickerRegex(t) ==
    LET f == SplitOn(t, "-")
    IN  IF /\ Len(f) = 5
           /\ f[1] = <<"A", "T", "M", "X">>
           /\ f[2] # << >> /\ AllIn(f[2], HexLower)
           /\ f[3] # << >> /\ AllIn(f[3], Upper)
           /\ \E k \in 1..Len(f[4]) :
                 /\ AllIn(SubSeq(f[4], 1, k), Digits)
                 /\ AllIn(SubSeq(f[4], k + 1, Len(f[4])), Upper)
           /\ Len(f[5]) = 8 /\ AllIn(f[5], Digits)
        THEN <<t, f[2], f[3], f[4], f[5]>>
        ELSE << >>

\* The sentinel a returned error wraps.
ErrInvalidTicker == "contract: invalid ticker format"
ErrInvalidType == "contract: unsupported contract type"

isLeap(year) == year % 4 = 0 /\ (year % 100 # 0 \/ year % 400 = 0)

\* A daysIn that gives every month 31 days.
daysIn_long(month, year) == 31

\* The days of a month of a year (package time).
daysIn(month, year) ==
    IF month = 2 THEN (IF isLeap(year) THEN 29 ELSE 28)
    ELSE IF month \in {4, 6, 9, 11} THEN 30 ELSE 31

NoTime == [year |-> 0, month |-> 0, day |-> 0, hour |-> 0, minute |-> 0,
           second |-> 0, nsec |-> 0, loc |-> ""]

\* time.Parse("20060102", d) for a text of eight digits: the year, the
\* month and the day are read at fixed widths, the month is to be 1..12 and
\* the day one of that month; the time is midnight UTC, the layout having
\* no zone.
timeParse(d) ==
    LET year == Atoi(SubSeq(d, 1, 4))
        month == Atoi(SubSeq(d, 5, 6))
        day == Atoi(SubSeq(d, 7, 8))
    IN  IF month < 1 \/ month > 12
        THEN [err |-> "month out of range", time |-> NoTime]
        ELSE IF day < 1 \/ day > daysIn(month, year)
        THEN [err |-> "day out of range", time |-> NoTime]
        ELSE [err |-> "",
              time |-> [year |-> year, month |-> month, day |-> day,
                        hour |-> 0, minute |-> 0, second |-> 0, nsec |-> 0,
                        loc |-> "UTC"]]

NoContract ==
    [ticker |-> << >>, h3CellID |-> << >>, type |-> << >>,
     threshold |-> << >>, expiryDate |-> NoTime]

\* contract.ParseTicker on the characters of a ticker.
ParseTickerText(ticker) ==
    LET matches == tickerRegex(ticker)
    IN  IF matches = << >>
        THEN [err |-> ErrInvalidTicker, contract |-> NoContract]
        ELSE IF matches[3] \notin validTypes
        THEN [err |-> ErrInvalidType, contract |-> NoContract]
        ELSE IF timeParse(matches[5]).err # ""
        THEN [err |-> ErrInvalidTicker, contract |-> NoContract]
        ELSE [err |-> "",
              contract |-> [ticker |-> ticker, h3CellID |-> matches[2],
                            type |-> matches[3], threshold |-> matches[4],
                            expiryDate |-> timeParse(matches[5]).time]]

\* The texts the tickers are put together from.
PrefixInputs ==
    {<<"A", "T", "M", "X">>, <<"B", "T", "C">>, <<"a", "t", "m", "x">>}
CellInputs ==
    {<<"8", "7", "2", "a">>, <<"Z", "Z", "Z", "Z">>, << >>, <<"8", "A">>}
TypeInputs ==
    {<<"P", "R", "E", "C", "I", "P">>, <<"T", "E", "M", "P">>,
     <<"W", "I", "N", "D">>, <<"S", "N", "O", "W">>, <<"R", "A", "I", "N">>,
     <<"T", "e", "m", "p">>, << >>}
ThresholdInputs ==
    {<<"2", "5", "M", "M">>, <<"3", "0">>, <<"M", "M">>, <<"2", "M", "5">>,
     << >>}
DateInputs ==
    {<<"2", "0", "2", "5", "0", "8", "1", "5">>,
     <<"2", "0", "2", "4", "0", "2", "2", "9">>,
     <<"2", "0", "2", "5", "0", "2", "2", "9">>,
     <<"1", "9", "0", "0", "0", "2", "2", "9">>,
     <<"2", "0", "0", "0", "0", "2", "2", "9">>,
     <<"2", "0", "2", "5", "1", "3", "0", "1">>,
     <<"2", "0", "2", "5", "0", "0", "1", "5">>,
     <<"2", "0", "2", "5", "0", "1", "0", "0">>,
     <<"2", "0", "2", "5", "0", "4", "3", "1">>,
     <<"0", "0", "0", "0", "0", "1", "0", "1">>,
     <<"2", "0", "2", "5", "0", "8", "1">>,
     <<"2", "0", "2", "5", "0", "8", "1", "5", "0">>,
     <<"n", "o", "t", "a", "d", "a", "t", "e">>}
\* What follows the last part: nothing, or a line feed.
SuffixInputs == {<< >>, <<"\n">>}
\* The number of parts a ticker has; a sixth part repeats the date.
PartCounts == 1..6

\* The parts joined by dashes.
RECURSIVE JoinDash(_)
JoinDash(parts) ==
    IF Len(parts) = 1 THEN parts[1]
    ELSE parts[1] \o <<"-">> \o JoinDash(Tail(parts))

TickerTexts ==
    {JoinDash(SubSeq(<<p, c, ty, th, d, d>>, 1, n)) \o s :
        p \in PrefixInputs, c \in CellInputs, ty \in TypeInputs,
        th \in ThresholdInputs, d \in DateInputs, s \in SuffixInputs,
        n \in PartCounts}

\* A call of ParseTicker that has not returned.
InitTicker ==
    /\ markets = [id \in {} |-> NoMarket]
    /\ ledger = << >>
    /\ mu = NoReq
    /\ req = [r \in Reqs |-> IdleReq]
    /\ clock = 1
    /\ nextID = 1
    /\ reply = NoReply
    /\ view = NoView
    /\ lim = [targetCell |-> NoCell, exposureDelta |-> 0,
              existingExposures |-> EmptyMap, called |-> TRUE, err |-> ""]
    /\ InitHub
    /\ rdb = NoRdb
    /\ rd = [k \in Readers |-> IdleReader]
    /\ poolUp = TRUE
    /\ impl = "memory"
    /\ fn \in [name : {"ParseTicker"}, ticker : TickerTexts,
               called : {FALSE}, err : {""}, contract : {NoContract}]

\* ParseTicker returns.
CallParseTicker ==
    LET res == ParseTickerText(fn.ticker)
    IN  /\ fn.name = "ParseTicker"
        /\ ~fn.called
        /\ fn' = [fn EXCEPT !.called = TRUE, !.err = res.err,
                            !.contract = res.contract]
        /\ UNCHANGED <<markets, ledger, mu, req, clock, nextID, reply, view,
                       lim, hubVars, cacheVars, poolUp, impl>>

NextTicker == CallParseTicker

SpecTicker == InitTicker /\ [][NextTicker]_vars

\* --------------------------------------------- the liquidity, derived directly

\* The percentiles are decimals in tenths, baseVolume is in hundredths and
\* the liquidity returned is in hundredths.
\* A minimum of 1.
minB_one == 10 * 10

\* minB, 10.
minB == 1000

\* 10^16 modulo m, for 0 < m < 10^4.
TenTo16Mod(m) ==
    LET e8 == 100000000 % m
    IN  (e8 * e8) % m

\* How iqr.Div(median) rounds the quotient at DivisionPrecision = 16 places,
\* for iqr >= 0 and median > 0: "exact", "down" or "up" (a half goes up).
DivRounding(iqr, median) ==
    LET r == (iqr * TenTo16Mod(median)) % median
    IN  IF r = 0 THEN "exact" ELSE IF 2 * r >= median THEN "up" ELSE "down"

\* contract.DeriveLiquidity.  With a positive median, cv is the quotient
\* rounded to 16 places and b = baseVolume * cv is away from
\* baseVolume * iqr / median by less than 10^-11 on the side cv was rounded
\* to: the difference decides the comparison with minB and the rounding to
\* two places where baseVolume * iqr / median is 10 or ends in half a
\* hundredth, and nothing else for the inputs below.
DeriveLiquidity(p25, p50, p75, baseVolume) ==
    LET iqr == p75 - p25
        median == p50
        dry == baseVolume * iqr
        num == baseVolume * iqr
        whole == num \div median
        rest == num % median
        cv == DivRounding(iqr, median)
    IN  IF median <= 0
        THEN IF iqr <= 0 THEN minB
             ELSE IF dry < 10 * minB THEN minB
             ELSE RoundDiv(dry, 10)
        ELSE IF \/ num < minB * median
                \/ num = minB * median /\ cv = "down"
        THEN minB
        ELSE IF 2 * rest > median THEN whole + 1
        ELSE IF 2 * rest < median THEN whole
        ELSE IF cv = "down" THEN whole ELSE whole + 1

\* The forecasts and volumes: a median that is negative, zero and positive;
\* ranges that are negative, zero, narrow and wide; quotients that do not
\* end (1/6, 5/6, 1/3); products that end in half a hundredth.
P25Inputs == {0, 200, 249}
P50Inputs == {-10, 0, 3, 6, 250}
P75Inputs == {0, 1, 5, 50, 81, 251, 300, 400}
BaseVolumeInputs == {100, 125, 3000, 6003, 10000}

\* A call of DeriveLiquidity that has not returned.
InitDerive ==
    /\ markets = [id \in {} |-> NoMarket]
    /\ ledger = << >>
    /\ mu = NoReq
    /\ req = [r \in Reqs |-> IdleReq]
    /\ clock = 1
    /\ nextID = 1
    /\ reply = NoReply
    /\ view = NoView
    /\ lim = [targetCell |-> NoCell, exposureDelta |-> 0,
              existingExposures |-> EmptyMap, called |-> TRUE, err |-> ""]
    /\ InitHub
    /\ rdb = NoRdb
    /\ rd = [k \in Readers |-> IdleReader]
    /\ poolUp = TRUE
    /\ impl = "memory"
    /\ fn \in [name : {"DeriveLiquidity"}, p25 : P25Inputs, p50 : P50Inputs,
               p75 : P75Inputs, baseVolume : BaseVolumeInputs,
               called : {FALSE}, b : {0}]

\* DeriveLiquidity returns.
CallDeriveLiquidity ==
    /\ fn.name = "DeriveLiquidity"
    /\ ~fn.called
    /\ fn' = [fn EXCEPT !.called = TRUE,
                        !.b = DeriveLiquidity(fn.p25, fn.p50, fn.p75,
                                              fn.baseVolume)]
    /\ UNCHANGED <<markets, ledger, mu, req, clock, nextID, reply, view,
                   lim, hubVars, cacheVars, poolUp, impl>>

NextDerive == CallDeriveLiquidity

SpecDerive == InitDerive /\ [][NextDerive]_vars

\* ------------------------------------------------------------- properties

RECURSIVE SeqSum(_)
SeqSum(s) == IF s = << >> THEN 0 ELSE Head(s) + SeqSum(Tail(s))

\* The requests that have taken s.mu.Lock() and not yet returned.
InBody == {r \in Reqs : req[r].pc # "idle"}

\* The trades whose UpdateMarketState has returned and whose ledger entry
\* is not yet appended, as the entries they are about to append.
Pending ==
    LET rs == {r \in Reqs : req[r].pc = "insert"}
    IN  IF rs = {} THEN << >>
        ELSE LET rq == req[CHOOSE r \in rs : TRUE]
             IN  <<[id |-> nextID, userID |-> rq.userID,
                    marketID |-> rq.market.id, contractID |-> rq.contractID,
                    side |-> rq.side, quantity |-> rq.quantity,
                    price |-> rq.calc.fillPrice, cost |-> rq.calc.cost,
                    timestamp |-> clock]>>

\* The markets as CreateMarket stored them, before any trade.
FreshMarkets ==
    [id \in DOMAIN markets |->
        [markets[id] EXCEPT !.qYes = 0, !.qNo = 0,
                            !.priceYes = Half, !.priceNo = Half]]

\* The trades of led executed one after the other on the markets ms, none
\* overlapping another; done are the entries appended so far.  ok says that
\* every trade is accepted and appends the entry led holds for it.
RECURSIVE SerialRun(_, _, _)
SerialRun(led, ms, done) ==
    IF led = << >> THEN [ok |-> TRUE, markets |-> ms]
    ELSE LET e == Head(led)
             m == StoreGetMarket(ms, e.marketID)
             exposures == StoreGetUserCellExposures(ms, done, e.userID)
             accepted ==
                 /\ m # NoMarket
                 /\ CheckLimit(m.h3CellID, ExposureDelta(e.side, e.quantity),
                               exposures) = ""
                 /\ ValidateSide(m, e.side, e.quantity) = ""
             calc == ComputeTrade(m, e.side, e.quantity)
             rest == SerialRun(Tail(led),
                               StoreUpdateMarketState(ms, e.marketID,
                                   calc.newQYes, calc.newQNo, calc.newPriceYes,
                                   calc.newPriceNo).markets,
                               Append(done, e))
         IN  IF accepted /\ e.cost = calc.cost /\ e.price = calc.fillPrice
             THEN rest
             ELSE [ok |-> FALSE, markets |-> ms]

\* C1: the bodies of ExecuteTrade do not interleave.  At most one request is
\* between Lock and Unlock, and it is the holder of the mutex; from its read
\* of the market to its UpdateMarketState the stored market is still the
\* copy it read; and the ledger and the markets are those of the trades
\* executed one at a time in ledger order (a trade between its
\* UpdateMarketState and its append counted last).
C1_Serialized ==
    /\ Cardinality(InBody) <= 1
    /\ \A r \in Reqs : (r \in InBody) <=> (mu = r)
    /\ \A r \in Reqs :
          req[r].pc \in {"getExposures", "checkLimit", "update"}
             => markets[req[r].market.id] = req[r].market
    /\ LET run == SerialRun(ledger \o Pending, FreshMarkets, << >>)
       IN  run.ok /\ run.markets = markets

\* A second trade is in its body, about to write the market, after a first
\* one moved the market it read.
C1_Witness ==
    \E r \in Reqs :
        /\ req[r].pc = "update"
        /\ Len(ledger) = 1
        /\ ledger[1].marketID = req[r].market.id
        /\ ledger[1].userID # req[r].userID
        /\ req[r].market.qYes + req[r].market.qNo # 0

\* The quantity of the trades of a market and side in a sequence of entries.
TradedQty(led, marketID, side) ==
    SeqSum([i \in 1..Len(led) |->
               IF led[i].marketID = marketID /\ led[i].side = side
               THEN led[i].quantity ELSE 0])

\* C2: a ledger entry is appended only after its UpdateMarketState: the
\* stored quantities of every market are those of its ledger entries plus
\* those of the trades that have updated the market and not yet appended,
\* so no entry exists whose trade the market does not include.
C2_StateBeforeEntry ==
    \A id \in DOMAIN markets :
        /\ markets[id].qYes = TradedQty(ledger, id, "YES")
                                + TradedQty(Pending, id, "YES")
        /\ markets[id].qNo = TradedQty(ledger, id, "NO")
                               + TradedQty(Pending, id, "NO")

\* A market is updated by a trade not yet in the ledger, after an earlier
\* trade on it was appended.
C2_Witness ==
    \E r \in Reqs :
        /\ req[r].pc = "insert"
        /\ Len(ledger) = 1
        /\ ledger[1].marketID = req[r].market.id
        /\ markets[req[r].market.id].qYes # TradedQty(ledger, req[r].market.id, "YES")

\* C3: an appended ledger entry is never changed, removed or reordered by a
\* store operation or by a caller writing into the result of a read: every
\* step leaves the ledger as it was or extends it at the end.
C3_LedgerPrefix ==
    [][/\ Len(ledger') >= Len(ledger)
       /\ SubSeq(ledger', 1, Len(ledger)) = ledger]_vars

\* A caller has overwritten an element of a slice it read, and the ledger
\* still holds the entry as it was appended.
C3_Witness ==
    /\ Len(ledger) = MaxLedger
    /\ \E k \in 1..Len(view.entries) :
          /\ view.entries[k].userID = "mallory"
          /\ ledger[view.index[k]].userID \in Users
          /\ ledger[view.index[k]].id = view.entries[k].id

\* The cells of the markets of the model.
Cells == {ParseTicker(t).h3CellID : t \in Tickers}

\* The net exposure of a user in a cell over a sequence of entries: +quantity
\* for the YES entries and -quantity for the NO entries of the cell's markets.
NetExposure(led, userID, cell) ==
    SeqSum([i \in 1..Len(led) |->
               IF /\ led[i].userID = userID
                  /\ ParseTicker(led[i].contractID).h3CellID = cell
               THEN IF led[i].side = "YES" THEN led[i].quantity
                    ELSE -led[i].quantity
               ELSE 0])

\* The step just taken answered a trade that had passed the market lookup.
Answered == reply.op = "ExecuteTrade" /\ reply.market # NoMarket

\* The exposure the user of the answered trade would have in its cell with
\* the trade added to the ledger (a rejected trade is not in it).
ExposureWithAnswered ==
    NetExposure(ledger, reply.userID, reply.market.h3CellID)
      + (IF reply.side = "YES" THEN reply.quantity ELSE -reply.quantity)

\* C4: for every user and cell the absolute net exposure is at most
\* maxPerCell; no trade that would exceed it gets past the limit check, and
\* a trade that would exceed it is answered 409 with the per-cell error.
C4_PerCellLimit ==
    /\ \A u \in Users, c \in Cells :
          Abs(NetExposure(ledger \o Pending, u, c)) <= MaxPerCell
    /\ \A r \in Reqs :
          req[r].pc = "update"
             => Abs(NetExposure(ledger, req[r].userID, req[r].market.h3CellID)
                      + ExposureDelta(req[r].side, req[r].quantity))
                  <= MaxPerCell
    /\ (Answered /\ reply.code # 200 /\ Abs(ExposureWithAnswered) > MaxPerCell)
          => reply.code = 409 /\ reply.error = ErrPerCellLimitExceeded
    /\ (Answered /\ reply.error = ErrPerCellLimitExceeded)
          => Abs(ExposureWithAnswered) > MaxPerCell

\* A trade has brought a user to exactly maxPerCell in a cell, and a further
\* trade of the user on another market of the cell has just been answered
\* 409.
C4_Witness ==
    /\ Answered
    /\ reply.code = 409
    /\ reply.error = ErrPerCellLimitExceeded
    /\ Len(ledger) = 1
    /\ ledger[1].userID = reply.userID
    /\ ledger[1].marketID # reply.market.id
    /\ Abs(NetExposure(ledger, reply.userID, reply.market.h3CellID)) = MaxPerCell

\* The cells whose prefix of length min(prefixLen, len(cell)) is that of c.
GroupOf(c) ==
    {d \in Cells :
        SubSeq(d, 1, IF PrefixLen < Len(d) THEN PrefixLen ELSE Len(d))
          = SubSeq(c, 1, IF PrefixLen < Len(c) THEN PrefixLen ELSE Len(c))}

RECURSIVE GroupExposure(_, _, _)
GroupExposure(led, userID, cells) ==
    IF cells = {} THEN 0
    ELSE LET c == CHOOSE d \in cells : TRUE
         IN  Abs(NetExposure(led, userID, c))
               + GroupExposure(led, userID, cells \ {c})

\* The entry a trade past the limit check will append, as far as exposure
\* reads it.
Checked(r) ==
    <<[userID |-> req[r].userID, contractID |-> req[r].contractID,
       side |-> req[r].side, quantity |-> req[r].quantity]>>

\* C5: for every user and every group of cells with the same prefix, the sum
\* of the absolute net exposures over the group is at most maxCorrelated,
\* in the ledger and with a trade that has passed the limit check added.
C5_CorrelatedLimit ==
    /\ \A u \in Users, c \in Cells :
          GroupExposure(ledger \o Pending, u, GroupOf(c)) <= MaxCorrelated
    /\ \A r \in Reqs :
          req[r].pc = "update"
             => GroupExposure(ledger \o Checked(r), req[r].userID,
                              GroupOf(req[r].market.h3CellID)) <= MaxCorrelated

\* A trade has just brought a user to exactly maxCorrelated over two cells
\* of one group.
C5_Witness ==
    /\ Answered
    /\ reply.code = 200
    /\ \E d \in GroupOf(reply.market.h3CellID) :
          /\ d # reply.market.h3CellID
          /\ NetExposure(ledger, reply.userID, d) # 0
          /\ NetExposure(ledger, reply.userID, reply.market.h3CellID) # 0
    /\ GroupExposure(ledger, reply.userID, GroupOf(reply.market.h3CellID))
          = MaxCorrelated

\* C8: every stored market has priceYes and priceNo within [0.001, 0.999]
\* and priceYes + priceNo = 1.
C8_PriceBounds ==
    \A id \in DOMAIN markets :
        /\ MinPrice <= markets[id].priceYes /\ markets[id].priceYes <= MaxPrice
        /\ MinPrice <= markets[id].priceNo /\ markets[id].priceNo <= MaxPrice
        /\ markets[id].priceYes + markets[id].priceNo = One

\* Two trades have moved a market to a YES price above 0.99.
C8_Witness ==
    /\ Len(ledger) = 2
    /\ \E id \in DOMAIN markets :
          /\ markets[id].priceYes > 99 * (One \div 100)
          /\ markets[id].qYes = TradedQty(ledger, id, "YES")
          /\ markets[id].qNo = TradedQty(ledger, id, "NO")
          /\ markets[id].qYes # 0 /\ markets[id].qNo # 0

\* The market of entry i of led as it was when the trade of the entry read
\* it: the quantities are those of the earlier entries.
StateBefore(led, i) ==
    [markets[led[i].marketID] EXCEPT
        !.qYes = TradedQty(SubSeq(led, 1, i - 1), led[i].marketID, "YES"),
        !.qNo = TradedQty(SubSeq(led, 1, i - 1), led[i].marketID, "NO")]

\* Entries i < j of led are two trades on one market and side, with no trade
\* on the market between them, whose quantities d1 and d2 make a trade
\* d1 + d2 that ExecuteTrade would price.
SplitTrade(led, i, j) ==
    /\ i < j
    /\ led[i].marketID = led[j].marketID
    /\ led[i].side = led[j].side
    /\ \A k \in (i + 1)..(j - 1) : led[k].marketID # led[i].marketID
    /\ led[i].quantity + led[j].quantity # 0
    /\ ValidateSide(StateBefore(led, i), led[i].side,
                    led[i].quantity + led[j].quantity) = ""

\* C9: path independence.  For two accepted trades d1 then d2 on one side of
\* a market, the two costs add up to the cost of the single trade d1 + d2
\* from the state before the first, and the second trade leaves the
\* quantities and prices the single trade would leave; they are the stored
\* ones while no later trade has written the market.
C9_PathIndependence ==
    LET led == ledger \o Pending
    IN  \A i, j \in 1..Len(led) :
           SplitTrade(led, i, j) =>
              LET id == led[i].marketID
                  single == ComputeTrade(StateBefore(led, i), led[i].side,
                               led[i].quantity + led[j].quantity)
                  second == ComputeTrade(StateBefore(led, j), led[j].side,
                               led[j].quantity)
              IN  /\ led[i].cost + led[j].cost = single.cost
                  /\ second.newQYes = single.newQYes
                  /\ second.newQNo = single.newQNo
                  /\ second.newPriceYes = single.newPriceYes
                  /\ second.newPriceNo = single.newPriceNo
                  /\ (\A k \in (j + 1)..Len(led) : led[k].marketID # id)
                        => /\ markets[id].qYes = single.newQYes
                           /\ markets[id].qNo = single.newQNo
                           /\ markets[id].priceYes = single.newPriceYes
                           /\ markets[id].priceNo = single.newPriceNo

\* One user has bought 2 and 2 again on the NO side of one market, where a
\* single purchase of 4 is within the limits.
C9_Witness ==
    /\ Len(ledger) = 2
    /\ SplitTrade(ledger, 1, 2)
    /\ ledger[1].userID = ledger[2].userID
    /\ ledger[1].side = "NO"
    /\ ledger[1].quantity = 2 /\ ledger[2].quantity = 2
    /\ reply.code = 200

\* The YES price after a trade, computed from the post-trade quantities, is
\* outside [0.001, 0.999].
OutOfBounds(market, side, quantity) ==
    LET qYes == IF side = "YES" THEN market.qYes + quantity ELSE market.qYes
        qNo == IF side = "NO" THEN market.qNo + quantity ELSE market.qNo
        price == SoftmaxE9(market.b, qYes, qNo)
    IN  price < MinPrice * 10 \/ price > MaxPrice * 10

\* The position limits allow the trade the step just taken answered.
LimitsAllowAnswered ==
    /\ Abs(ExposureWithAnswered) <= MaxPerCell
    /\ GroupExposure(ledger \o <<[userID |-> reply.userID,
                                  contractID |-> reply.contractID,
                                  side |-> reply.side,
                                  quantity |-> reply.quantity]>>,
                     reply.userID, GroupOf(reply.market.h3CellID))
          <= MaxCorrelated

PrefixOf(c) == SubSeq(c, 1, IF PrefixLen < Len(c) THEN PrefixLen ELSE Len(c))

RECURSIVE SumAbs(_, _)
SumAbs(f, S) ==
    IF S = {} THEN 0
    ELSE LET c == CHOOSE d \in S : TRUE IN Abs(f[c]) + SumAbs(f, S \ {c})

\* |existing[targetCell] + delta| of the call, a missing entry counting 0.
NewInCell ==
    Abs((IF lim.targetCell \in DOMAIN lim.existingExposures
         THEN lim.existingExposures[lim.targetCell] ELSE 0)
        + lim.exposureDelta)

\* The cells of the snapshot other than the target.
OtherCells == DOMAIN lim.existingExposures \ {lim.targetCell}

\* The other cells of the snapshot with the prefix of the target.
SamePrefixCells == {c \in OtherCells : PrefixOf(c) = PrefixOf(lim.targetCell)}

\* The correlated total of the call.
CorrelatedTotal == NewInCell + SumAbs(lim.existingExposures, SamePrefixCells)

\* C6: CheckLimit returns the per-cell error iff |existing[target] + delta|
\* > maxPerCell, else the correlated error iff that plus the sum of
\* |existing[c]| over the other cells with the target's prefix is
\* > maxCorrelated, else nil; and the result is that of the call on the
\* snapshot without the cells of other prefixes.
C6_CheckLimit ==
    lim.called =>
       /\ lim.err = IF NewInCell > MaxPerCell THEN ErrPerCellLimitExceeded
                    ELSE IF CorrelatedTotal > MaxCorrelated
                    THEN ErrCorrelatedLimitExceeded
                    ELSE ""
       /\ lim.err = CheckLimit(lim.targetCell, lim.exposureDelta,
                       [c \in DOMAIN lim.existingExposures
                               \ (OtherCells \ SamePrefixCells)
                          |-> lim.existingExposures[c]])

\* Both limits are exceeded and the per-cell error is returned, on a
\* snapshot without the target cell that holds a cell of another prefix.
C6_Witness ==
    /\ lim.called
    /\ NewInCell > MaxPerCell
    /\ CorrelatedTotal > MaxCorrelated
    /\ SamePrefixCells # {}
    /\ OtherCells \ SamePrefixCells # {}
    /\ lim.targetCell \notin DOMAIN lim.existingExposures
    /\ lim.err = ErrPerCellLimitExceeded

\* C7 as stated: above maxPerCell the trade is rejected, at maxPerCell it is
\* accepted, below it the outcome is that of the correlated total.
C7_Stated ==
    lim.called =>
       /\ NewInCell > MaxPerCell => lim.err # ""
       /\ NewInCell = MaxPerCell => lim.err = ""
       /\ NewInCell < MaxPerCell
             => lim.err = IF CorrelatedTotal > MaxCorrelated
                          THEN ErrCorrelatedLimitExceeded ELSE ""

\* C7, amended: above maxPerCell the trade is rejected; at maxPerCell and
\* below it the per-cell test passes and the outcome is that of the
\* correlated total alone.
C7_Monotone ==
    lim.called =>
       /\ NewInCell > MaxPerCell => lim.err # ""
       /\ NewInCell <= MaxPerCell
             => lim.err = IF CorrelatedTotal > MaxCorrelated
                          THEN ErrCorrelatedLimitExceeded ELSE ""

\* A trade that brings the cell exactly to maxPerCell is refused for the
\* correlated total.
C7_Witness ==
    /\ lim.called
    /\ NewInCell = MaxPerCell
    /\ lim.err = ErrCorrelatedLimitExceeded

\* ------------------------------------------------------------- C11 .. C20

\* C11: a trade on a market whose status is not open is answered 409
\* "market is not open for trading", whatever the user, side and quantity,
\* and leaves the request without a write; and a ledger entry is appended
\* only by a request whose copy of the market, as it read it, was open.
C11_NotOpenRejected ==
    [][\A r \in Reqs :
        /\ (/\ req[r].pc = "getMarket"
            /\ req'[r].pc # "getMarket"
            /\ StoreGetMarketByContract(markets, req[r].contractID) # NoMarket
            /\ StoreGetMarketByContract(markets, req[r].contractID).status
                   # "open")
            => /\ reply'.op = "ExecuteTrade"
               /\ reply'.code = 409
               /\ reply'.error = "market is not open for trading"
               /\ req'[r].pc = "idle"
               /\ markets' = markets
               /\ ledger' = ledger
        /\ (req[r].pc = "insert" /\ Len(ledger') > Len(ledger))
            => req[r].market.status = "open"]_vars

\* A market took a trade, was settled, and refused the next trade, a sale on
\* the NO side.
C11_Witness ==
    /\ reply.op = "ExecuteTrade"
    /\ reply.code = 409
    /\ reply.error = "market is not open for trading"
    /\ reply.side = "NO"
    /\ reply.quantity = -4
    /\ Len(ledger) = 1
    /\ \E id \in DOMAIN markets :
          /\ markets[id].contractID = reply.contractID
          /\ markets[id].status = "settled"
          /\ ledger[1].marketID = id

\* The ledger as the trade the step just taken answered found it: an
\* accepted trade has appended its entry, the last one.
LedgerBeforeAnswered ==
    IF reply.code = 200 THEN SubSeq(ledger, 1, Len(ledger) - 1) ELSE ledger

\* The user's exposure in the cell of the answered trade, and in the group
\* of that cell, with the trade added.
CellWithAnswered ==
    NetExposure(LedgerBeforeAnswered, reply.userID, reply.market.h3CellID)
      + (IF reply.side = "YES" THEN reply.quantity ELSE -reply.quantity)

GroupWithAnswered ==
    GroupExposure(LedgerBeforeAnswered \o <<[userID |-> reply.userID,
                                             contractID |-> reply.contractID,
                                             side |-> reply.side,
                                             quantity |-> reply.quantity]>>,
                  reply.userID, GroupOf(reply.market.h3CellID))

C13_BroadcastNeverBlocks ==
    /\ [](\A r \in Reqs :
            (Running /\ req[r].pc = "respond") => ENABLED TradeRespond(r))
    /\ [](Len(broadcast) <= QueueCap)
    /\ [][\A r \in Reqs :
            (req[r].pc = "respond" /\ req'[r].pc # "respond")
               => /\ reply'.op = "ExecuteTrade"
                  /\ reply'.code = 200
                  /\ mu' = NoReq
                  /\ broadcast' = IF Len(broadcast) < QueueCap
                                  THEN Append(broadcast, TradeMessage(req[r]))
                                  ELSE broadcast]_vars

\* The worker is stuck in a write to a stalled connection, the channel is
\* full, and a trade has just been answered 200 with its message dropped.
C13_Witness ==
    /\ reply.op = "ExecuteTrade"
    /\ reply.code = 200
    /\ calls # << >>
    /\ ~calls[Len(calls)].queued
    /\ Len(broadcast) = QueueCap
    /\ worker.pc = "write"
    /\ conn[worker.to].peer = "stalled"
    /\ mu = NoReq

\* The messages written to a connection: its frames without the damaged
\* ones.
Messages(c) == SelectSeq(conn[c].frames, LAMBDA f : f # Garbled)

\* The number of the Broadcast call that submitted the message m.
CallOf(m) == CHOOSE i \in 1..Len(calls) : calls[i].msg = m

LedgerPlace(tradeID) ==
    IF \E i \in 1..Len(ledger) : ledger[i].id = tradeID
    THEN CHOOSE i \in 1..Len(ledger) : ledger[i].id = tradeID
    ELSE 0

\* C15: the trade_executed messages are handed to the hub, and enter its
\* channel, in the order in which their trades were committed, across the
\* markets: every Broadcast call is for a trade whose entry is in the
\* ledger, a later call is for a later entry, and the messages waiting in
\* the channel are in the order of their entries.
C15_BroadcastInCommitOrder ==
    /\ \A i \in 1..Len(calls) : LedgerPlace(calls[i].msg.tradeID) > 0
    /\ \A i \in 1..Len(calls), j \in 1..Len(calls) :
          i < j => LedgerPlace(calls[i].msg.tradeID)
                     < LedgerPlace(calls[j].msg.tradeID)
    /\ \A i \in 1..Len(broadcast), j \in 1..Len(broadcast) :
          i < j => LedgerPlace(broadcast[i].tradeID)
                     < LedgerPlace(broadcast[j].tradeID)
    /\ \A i \in 1..Len(broadcast) :
          \E k \in 1..Len(calls) :
             calls[k].queued /\ calls[k].msg = broadcast[i]

\* Two trades on different markets were committed one after the other and
\* both messages entered the channel, in that order.
C15_Witness ==
    /\ Len(calls) >= 2
    /\ calls[1].queued
    /\ calls[2].queued
    /\ calls[1].msg.marketID # calls[2].msg.marketID
    /\ LedgerPlace(calls[1].msg.tradeID) = 1
    /\ LedgerPlace(calls[2].msg.tradeID) = 2

\* C16: on the cached store, with GetMarket and GetPrice requests beside
\* the trades, the market a trade has read is the market of the primary
\* store (the state written by the last UpdateMarketState), and between
\* trades the quantities of every market are the sums of its ledger
\* entries: no trade's quantity is lost.
C16_ReadsLatestState ==
    /\ \A r \in Reqs :
          req[r].pc \in {"getExposures", "checkLimit", "update"}
             => req[r].market = StoreGetMarket(markets, req[r].market.id)
    /\ mu = NoReq =>
          \A id \in DOMAIN markets :
             /\ markets[id].qYes = TradedQty(ledger, id, "YES")
             /\ markets[id].qNo = TradedQty(ledger, id, "NO")

\* C17: GetUserPositions marks to market at the current price: in every
\* portfolio response, the current value of each position is its
\* quantities at the price the market has now, and the unrealized P&L is
\* that value less the cost basis.
C17_CurrentPrice ==
    reply.op = "GetPortfolio" =>
        \A id \in DOMAIN reply.positions :
            LET p == reply.positions[id]
                priceYes == StoreGetMarket(markets, id).priceYes
                currentValue == priceYes * p.yesQty + (One - priceYes) * p.noQty
            IN  /\ p.currentValue = currentValue
                /\ p.unrealizedPnL = currentValue - p.costBasis

\* The cache read of the entry fails: the call errors, or the bytes under
\* the key do not decode.
ReadFails(kind, key) ==
    \/ ~rdb.up
    \/ key \in DOMAIN rdb[kind] /\ ~rdb[kind][key].decodes

\* The position summary of a trade response, from the positions given.
SummaryOf(positions, id) ==
    IF id \in DOMAIN positions
    THEN [yesQty |-> positions[id].yesQty, noQty |-> positions[id].noQty,
          costBasis |-> positions[id].costBasis,
          unrealizedPnL |-> positions[id].unrealizedPnL]
    ELSE NoPosition

\* C18: a cache failure never fails a request through the cached store.
\* When the cache read errors or gives bytes that do not decode, the market
\* lookup of a trade, the GetMarket and GetPrice requests, the portfolio and
\* the position of a trade response have the outcome of the primary store;
\* when the cache does not answer, CreateMarket, UpdateMarketState and
\* InsertLedgerEntry have the outcome of the primary store.
C18_CacheFailureHarmless ==
    [][/\ \A r \in Reqs :
            LET m == StoreGetMarketByContract(markets, req[r].contractID)
            IN  /\ req[r].pc = "getMarket"
                /\ req'[r].pc # "getMarket"
                /\ (~rdb.up \/ ReadFails("market", m.id))
                => IF m = NoMarket
                   THEN reply'.code = 404
                   ELSE /\ reply'.code # 404
                        /\ req'[r].pc = "getExposures" => req'[r].market = m
       /\ /\ reply'.op \in {"GetMarket", "GetPrice"}
          /\ reply'.code = 200
          /\ \A k \in Readers : rd[k].pc = "idle"
          => ~ReadFails("market", reply'.market.id)
       /\ \A k \in Readers :
            LET m == StoreGetMarket(markets, rd[k].id)
            IN  /\ rd[k].pc = "primary" /\ rd'[k].pc # "primary"
                   => IF m = NoMarket
                      THEN reply'.code = 404
                      ELSE rd'[k].pc = "cacheMarket" /\ rd'[k].market = m
                /\ rd[k].pc = "cacheMarket" /\ rd'[k].pc # "cacheMarket"
                   => reply' = ReadResponse(rd[k].op, rd[k].id, rd[k].market)
       /\ reply'.op = "GetPortfolio" /\ ReadFails("positions", reply'.userID)
          => /\ reply'.code = 200
             /\ reply'.positions =
                   StoreGetUserPositions(markets, ledger, reply'.userID)
       /\ \A r \in Reqs :
            /\ req[r].pc = "respond"
            /\ req'[r].pc # "respond"
            /\ ReadFails("positions", req[r].userID)
            => /\ reply'.code = 200
               /\ reply'.position =
                     SummaryOf(StoreGetUserPositions(markets, ledger,
                                                     req[r].userID),
                               req[r].market.id)
       /\ reply'.op = "CreateMarket" /\ ~rdb.up
          => LET known == \E id \in DOMAIN markets :
                             markets[id].contractID = reply'.contractID
             IN  /\ reply'.code = IF known THEN 409 ELSE 201
                 /\ markets' = IF known THEN markets
                               ELSE (reply'.market.id :> reply'.market)
                                       @@ markets
       /\ \A r \in Reqs :
            LET res == StoreUpdateMarketState(markets, req[r].market.id,
                          req[r].calc.newQYes, req[r].calc.newQNo,
                          req[r].calc.newPriceYes, req[r].calc.newPriceNo)
            IN  req[r].pc = "update" /\ req'[r].pc # "update" /\ ~rdb.up
                => /\ markets' = res.markets
                   /\ req'[r].pc = "insert" <=> res.err = ""
       /\ \A r \in Reqs :
            req[r].pc = "insert" /\ req'[r].pc # "insert" /\ ~rdb.up
            => /\ req'[r].pc = "respond"
               /\ Len(ledger') = Len(ledger) + 1
               /\ SubSeq(ledger', 1, Len(ledger)) = ledger
               /\ ledger'[Len(ledger')].id = req'[r].entryID
               /\ ledger'[Len(ledger')].userID = req[r].userID
               /\ ledger'[Len(ledger')].quantity = req[r].quantity
      ]_vars

\* The cache holds the positions of the user and does not answer, and the
\* second trade of the user was answered 200 with the position of both
\* trades.
C18_Witness ==
    /\ ~rdb.up
    /\ reply.op = "ExecuteTrade"
    /\ reply.code = 200
    /\ reply.userID \in DOMAIN rdb.positions
    /\ Len(ledger) = 2
    /\ reply.position.yesQty = ledger[1].quantity + ledger[2].quantity

\* The markets as they were before the UpdateMarketState of the trade
\* whose ledger entry is not yet appended.
MarketsBefore ==
    LET rs == {r \in Reqs : req[r].pc = "insert"}
    IN  IF rs = {} THEN markets
        ELSE LET rq == req[CHOOSE r \in rs : TRUE]
             IN  [markets EXCEPT ![rq.market.id].qYes = rq.market.qYes,
                                 ![rq.market.id].qNo = rq.market.qNo,
                                 ![rq.market.id].priceYes = rq.market.priceYes,
                                 ![rq.market.id].priceNo = rq.market.priceNo]

\* C19: a portfolio read beside a trade sees the snapshot before the trade
\* (the old quantities and prices, the ledger without the entry) or the
\* snapshot after it (the new quantities and prices, the ledger with the
\* entry), never a mix of the two.
C19_NoTornRead ==
    reply.op = "GetPortfolio" =>
        \/ reply.positions =
              StoreGetUserPositions(MarketsBefore, ledger, reply.userID)
        \/ reply.positions =
              StoreGetUserPositions(markets, ledger \o Pending, reply.userID)

\* C20: a trade whose context is cancelled while it waits for the mutex or
\* before it writes takes no further step but its error response: it
\* returns an error, the market is not updated and no entry is appended.
C20_CancelledWritesNothing ==
    [][\A r \in Reqs :
          /\ req[r].ctxDone
          /\ req[r].pc \in {"lock", "getMarket", "getExposures", "checkLimit",
                             "update"}
          /\ req'[r].pc # req[r].pc
          => /\ req'[r].pc = "idle"
             /\ reply'.op = "ExecuteTrade"
             /\ reply'.code # 200
             /\ markets' = markets
             /\ ledger' = ledger
      ]_vars

\* ------------------------------------------------------------- C21 .. C30

\* The response of the step just taken is that of a handler that called the
\* store: every response but the 400 of the input validation and the 409 of
\* the limit and price-bound checks of ExecuteTrade.
CalledStore ==
    /\ reply.op # ""
    /\ reply.code # 400
    /\ ~(reply.op = "ExecuteTrade" /\ reply.code = 409)

\* C21: a store failure is reported as 500 without the error text of the
\* store; 409 is the answer of CreateMarket to a contract that has a
\* market, and 404 the answer for a market that does not exist.
C21_StoreFailureIs500 ==
    /\ ~poolUp /\ CalledStore
          => reply.code = 500 /\ reply.error # ErrPool
    /\ reply.op = "CreateMarket" /\ reply.code = 409
          => \E id \in DOMAIN markets :
                markets[id].contractID = reply.contractID
    /\ reply.op = "ExecuteTrade" /\ reply.code = 404
          => ~\E id \in DOMAIN markets :
                 markets[id].contractID = reply.contractID

\* The sum of a field over the entries of a user on a market, of the sides
\* given.
EntrySum(led, userID, marketID, sides, field) ==
    SeqSum([i \in 1..Len(led) |->
               IF /\ led[i].userID = userID
                  /\ led[i].marketID = marketID
                  /\ led[i].side \in sides
               THEN led[i][field] ELSE 0])

\* C22: for every user, GetUserPositions returns one position for each
\* market the user has entries on, with yesQty the sum of the quantities
\* of the user's YES entries of the market, noQty the sum over the NO
\* entries, netQty = yesQty - noQty, and costBasis the sum of the costs of
\* those entries.
C22_PositionDerivation ==
    \A userID \in Users :
        LET positions == StoreGetUserPositions(markets, ledger, userID)
        IN  /\ DOMAIN positions =
                  {ledger[i].marketID :
                      i \in {j \in 1..Len(ledger) : ledger[j].userID = userID}}
            /\ \A id \in DOMAIN positions :
                  LET p == positions[id]
                  IN  /\ p.marketID = id
                      /\ p.userID = userID
                      /\ p.yesQty = EntrySum(ledger, userID, id, {"YES"},
                                             "quantity")
                      /\ p.noQty = EntrySum(ledger, userID, id, {"NO"},
                                            "quantity")
                      /\ p.netQty = p.yesQty - p.noQty
                      /\ p.costBasis = EntrySum(ledger, userID, id,
                                                {"YES", "NO"}, "cost")

\* A user holds YES and NO shares of one market, bought at a cost, and the
\* position nets them.
C22_Witness ==
    \E userID \in Users :
        LET positions == StoreGetUserPositions(markets, ledger, userID)
        IN  \E id \in DOMAIN positions :
               /\ positions[id].yesQty # 0
               /\ positions[id].noQty # 0
               /\ positions[id].netQty # positions[id].yesQty
               /\ EntrySum(ledger, userID, id, {"NO"}, "cost") # 0

\* C23: no two stored markets have the same contractID, and a CreateMarket
\* for a contractID that has a market is answered 409 and leaves the
\* markets as they are.
C23_UniqueContract ==
    /\ [](\A id1 \in DOMAIN markets, id2 \in DOMAIN markets :
            markets[id1].contractID = markets[id2].contractID => id1 = id2)
    /\ [][/\ reply'.op = "CreateMarket"
          /\ \E id \in DOMAIN markets :
                markets[id].contractID = reply'.contractID
          => reply'.code = 409 /\ markets' = markets]_vars

\* A second CreateMarket for the contract of a market that has been traded
\* was answered 409 beside another market, and the market keeps its
\* quantities.
C23_Witness ==
    /\ reply.op = "CreateMarket"
    /\ reply.code = 409
    /\ Cardinality(DOMAIN markets) = 2
    /\ \E id \in DOMAIN markets :
          /\ markets[id].contractID = reply.contractID
          /\ markets[id].qYes > 0

\* C24: a CreateMarket with a valid ticker that has no market is answered
\* 201 and the market stored has qYes = qNo = 0, both prices 0.5, status
\* open, the cell of the ticker, and the b of the request when that is
\* positive, else 100; a CreateMarket with an invalid ticker is answered 400
\* and stores nothing.
C24_NewMarket ==
    /\ [](\A in \in CreateBInputs :
            /\ reply.op = "CreateMarket"
            /\ reply.contractID = in[1]
            /\ reply.code = 201
            => /\ reply.market.id \in DOMAIN markets
               /\ markets[reply.market.id] =
                    [id |-> reply.market.id, contractID |-> in[1],
                     h3CellID |-> ParseTicker(in[1]).h3CellID,
                     qYes |-> 0, qNo |-> 0,
                     b |-> IF in[2] > 0 THEN in[2] ELSE 100,
                     priceYes |-> Half, priceNo |-> Half, status |-> "open"])
    /\ [][reply'.op = "CreateMarket" =>
            IF ParseTicker(reply'.contractID).err # ""
            THEN reply'.code = 400 /\ markets' = markets /\ rdb' = rdb
            ELSE (\A id \in DOMAIN markets :
                     markets[id].contractID # reply'.contractID)
                 => reply'.code = 201]_vars

\* A market was created from a request whose b is negative, beside a market
\* created with the b of its request.
C24_Witness ==
    /\ reply.op = "CreateMarket"
    /\ reply.code = 201
    /\ reply.contractID = TickerC
    /\ markets[reply.market.id].b = 100
    /\ \E id \in DOMAIN markets :
          markets[id].contractID = TickerD /\ markets[id].b = 2

\* C25: the marketID of every ledger entry is the id of a market of the
\* store.
C25_EntriesReferenceMarkets ==
    \A k \in 1..Len(ledger) : ledger[k].marketID \in DOMAIN markets

\* C26: the position of a 200 response of ExecuteTrade counts the entry of
\* the trade: its yesQty (its noQty for a NO trade) and its costBasis are
\* the sums over the entries of the user on the market, the entry of this
\* trade among them.
C26_SummaryIncludesTrade ==
    reply.op = "ExecuteTrade" /\ reply.code = 200 =>
        \E k \in 1..Len(ledger) :
            /\ ledger[k].id = reply.tradeID
            /\ ledger[k].userID = reply.userID
            /\ LET id == ledger[k].marketID
                   qty == EntrySum(ledger, reply.userID, id, {reply.side},
                                   "quantity")
               IN  /\ reply.side = "YES" => reply.position.yesQty = qty
                   /\ reply.side = "NO" => reply.position.noQty = qty
                   /\ reply.position.costBasis =
                         EntrySum(ledger, reply.userID, id, {"YES", "NO"},
                                  "cost")

\* The ways a text reads as ATMX-{cell}-{type}-{threshold}-{date}: the places
\* of four dashes with ATMX before the first, a cell in [0-9a-f]+, a type in
\* [A-Z]+, a threshold in [0-9]+[A-Z]* and a date of eight digits between
\* and after them.
TickerForms(t) ==
    LET dashes == {i \in 1..Len(t) : t[i] = "-"}
        part(a, b) == SubSeq(t, a + 1, b - 1)
    IN  {f \in dashes \X dashes \X dashes \X dashes :
            /\ f[1] < f[2] /\ f[2] < f[3] /\ f[3] < f[4]
            /\ part(0, f[1]) = <<"A", "T", "M", "X">>
            /\ part(f[1], f[2]) # << >>
            /\ AllIn(part(f[1], f[2]), HexLower)
            /\ part(f[2], f[3]) # << >>
            /\ AllIn(part(f[2], f[3]), Upper)
            /\ \E n \in 1..(f[4] - f[3] - 1) :
                  /\ AllIn(part(f[3], f[3] + n + 1), Digits)
                  /\ AllIn(part(f[3] + n, f[4]), Upper)
            /\ Len(part(f[4], Len(t) + 1)) = 8
            /\ AllIn(part(f[4], Len(t) + 1), Digits)}

\* The parts of a text of that form.
TickerPartsOf(t) ==
    LET f == CHOOSE f \in TickerForms(t) : TRUE
    IN  [cell |-> SubSeq(t, f[1] + 1, f[2] - 1),
         type |-> SubSeq(t, f[2] + 1, f[3] - 1),
         threshold |-> SubSeq(t, f[3] + 1, f[4] - 1),
         date |-> SubSeq(t, f[4] + 1, Len(t))]

\* The lengths of the months of a year of the Gregorian calendar.
MonthLengths(year) ==
    <<31, IF (year % 4 = 0 /\ year % 100 # 0) \/ year % 400 = 0
          THEN 29 ELSE 28,
      31, 30, 31, 30, 31, 31, 30, 31, 30, 31>>

\* YYYYMMDD is a day of the calendar.
CalendarDate(d) ==
    LET year == Atoi(SubSeq(d, 1, 4))
        month == Atoi(SubSeq(d, 5, 6))
        day == Atoi(SubSeq(d, 7, 8))
    IN  /\ month \in 1..12
        /\ day \in 1..MonthLengths(year)[month]

\* What C27 says of a ticker and the result of ParseTicker on it, the error
\* of a text of the form with an unsupported type and a date that is not
\* one being invalidDateErr when the type is supported and
\* unsupportedDateErr when it is not.
TickerResult(ticker, res, unsupportedDateErr) ==
    LET formed == TickerForms(ticker) # {}
        parts == TickerPartsOf(ticker)
        supported == parts.type \in {TypePrecip, TypeTemp, TypeWind, TypeSnow}
        dated == CalendarDate(parts.date)
    IN  IF ~formed THEN res.err = ErrInvalidTicker
        ELSE IF supported /\ dated
        THEN /\ res.err = ""
             /\ res.contract =
                  [ticker |-> ticker, h3CellID |-> parts.cell,
                   type |-> parts.type, threshold |-> parts.threshold,
                   expiryDate |->
                       [year |-> Atoi(SubSeq(parts.date, 1, 4)),
                        month |-> Atoi(SubSeq(parts.date, 5, 6)),
                        day |-> Atoi(SubSeq(parts.date, 7, 8)),
                        hour |-> 0, minute |-> 0, second |-> 0, nsec |-> 0,
                        loc |-> "UTC"]]
        ELSE IF supported THEN res.err = ErrInvalidTicker
        ELSE IF dated THEN res.err = ErrInvalidType
        ELSE res.err = unsupportedDateErr

\* C27 as stated: ParseTicker succeeds exactly on the texts
\* ATMX-{cell}-{type}-{threshold}-{YYYYMMDD} with a supported type and a
\* date of the calendar, and returns their parts with the expiry at UTC
\* midnight; a text that is not of the pattern or whose date is not a date
\* fails with InvalidTicker, a text of the pattern with another upper-case
\* type with UnsupportedType.
C27_Stated ==
    fn.name = "ParseTicker" /\ fn.called =>
        TickerResult(fn.ticker, fn, ErrInvalidTicker)

\* C27: the same, where a text of the pattern with another upper-case type
\* fails with UnsupportedType whatever its date, and InvalidTicker is the
\* error of a text that is not of the pattern or that has a supported type
\* and a date that is not one.
C27_ParseTicker ==
    fn.name = "ParseTicker" /\ fn.called =>
        TickerResult(fn.ticker, fn, ErrInvalidType)

\* ParseTicker has failed with UnsupportedType on a text of the pattern
\* whose type is not supported and whose date is the 29th of February of a
\* year that has none.
C27_Witness ==
    /\ fn.name = "ParseTicker" /\ fn.called
    /\ fn.ticker = <<"A", "T", "M", "X", "-", "8", "7", "2", "a", "-",
                     "R", "A", "I", "N", "-", "2", "5", "M", "M", "-",
                     "2", "0", "2", "5", "0", "2", "2", "9">>
    /\ fn.err = ErrInvalidType

\* What DeriveLiquidity is to return, in hundredths, as a fraction: the
\* floor 10 when the range is not positive, else baseVolume * IQR / P50 for
\* a positive median and baseVolume * IQR otherwise, raised to 10.
DerivedExactly ==
    LET iqr == fn.p75 - fn.p25
        den == IF fn.p50 > 0 THEN fn.p50 ELSE 10
        num == fn.baseVolume * iqr
    IN  [num |-> IF iqr <= 0 THEN 1000 * den ELSE MaxOf(num, 1000 * den),
         den |-> den]

PaidOn(led, marketID) ==
    SeqSum([i \in 1..Len(led) |->
               IF led[i].marketID = marketID THEN led[i].cost ELSE 0])

\* C29: after every sequence of trades on a market created at (0, 0), the
\* payout due if YES wins, one unit for each YES share outstanding, less
\* what the traders have paid in all, is at most b * ln 2 (MaxLoss), to
\* the last of the 8 decimal places.  A trade that has updated the market
\* and not yet appended its entry has its cost counted.
C29_BoundedLoss ==
    \A id \in DOMAIN markets :
        markets[id].qYes * One - PaidOn(ledger \o Pending, id)
            <= MaxLoss(markets[id].b)

\* Two trades have left a market with a loss on YES above nine tenths of
\* the bound.
C29_Witness ==
    /\ Pending = << >>
    /\ \E id \in DOMAIN markets :
          /\ Cardinality({k \in 1..Len(ledger) : ledger[k].marketID = id}) = 2
          /\ markets[id].qYes * One - PaidOn(ledger, id)
               > 9 * (MaxLoss(markets[id].b) \div 10)

\* The responses of an ExecuteTrade that is refused before
\* UpdateMarketState is called.
RejectedBeforeUpdate(rep) ==
    /\ rep.op = "ExecuteTrade"
    /\ rep.code # 200
    /\ rep.error \notin {"failed to update market state",
                         "failed to record trade"}

\* C30: a step of an ExecuteTrade that has not reached UpdateMarketState, the
\* step that refuses it among them (bad input, no market, market not open,
\* failed read of the exposures, position limit, price bound), changes no
\* market, appends nothing to the ledger and broadcasts nothing.
C30_RejectedWritesNothing ==
    [][(\/ RejectedBeforeUpdate(reply')
        \/ \E r \in Reqs :
              /\ req[r].pc \in {"idle", "lock", "getMarket", "getExposures",
                                "checkLimit"}
              /\ req'[r] # req[r])
       => /\ markets' = markets
          /\ ledger' = ledger
          /\ broadcast' = broadcast
          /\ calls' = calls]_vars

\* A trade was refused with 500 for the exposures that could not be read,
\* on a market that an earlier trade has moved and broadcast.
C30_Witness ==
    /\ RejectedBeforeUpdate(reply)
    /\ reply.code = 500
    /\ reply.error = "failed to check position limits"
    /\ Len(ledger) = 1
    /\ Len(calls) = 1
    /\ markets[reply.market.id].qYes > 0


\* The fields of a market that UpdateMarketState does not write.
KeptFields(m) == [m EXCEPT !.qYes = 0, !.qNo = 0, !.priceYes = 0,
                           !.priceNo = 0]

\* A step of the store keeps every market it has and the fields of each
\* that UpdateMarketState does not write are never changed; a call of
\* UpdateMarketState changes no other market and adds none.
UpdateChangesFourFields ==
    /\ \A id \in DOMAIN markets :
          /\ id \in DOMAIN markets'
          /\ KeptFields(markets'[id]) = KeptFields(markets[id])
    /\ fn'.name = "UpdateMarketState" =>
          /\ DOMAIN markets' = DOMAIN markets
          /\ \A id \in DOMAIN markets :
                id # fn'.arg => markets'[id] = markets[id]

\* A call of UpdateMarketState with an id of no market returns an error and
\* changes nothing.
UpdateUnknownIsNotFound ==
    fn'.name = "UpdateMarketState" /\ fn'.arg \notin DOMAIN markets =>
        fn'.err # "" /\ markets' = markets

\* Every step of the store writes at most the four fields of the addressed
\* market.
UpdateFrameHolds == [][UpdateChangesFourFields]_vars

\* C31: UpdateMarketState changes only qYes, qNo, priceYes and priceNo of
\* the addressed market, every other field and every other market is
\* unchanged, no operation changes a status or deletes a market, and for
\* an id of no market it returns NotFound and changes nothing.
C31_UpdateFrame ==
    [][UpdateChangesFourFields /\ UpdateUnknownIsNotFound]_vars


\* C32: the stored prices of every market are the prices of its stored
\* quantities: priceYes is Price(qYes, qNo) and priceNo is PriceNo(qYes,
\* qNo) of the pricer of the market's b.
C32_StoredPrices ==
    \A id \in DOMAIN markets :
        LET m == markets[id]
        IN  /\ m.priceYes = Price(m.b, m.qYes, m.qNo)
            /\ m.priceNo = PriceNo(m.b, m.qYes, m.qNo)

\* A market has been traded on both sides and its prices have moved.
C32_Witness ==
    \E id \in DOMAIN markets :
        /\ markets[id].qYes > 0
        /\ markets[id].qNo > 0
        /\ markets[id].priceYes # Half
        /\ \E k \in 1..Len(ledger) : ledger[k].marketID = id


\* C33: on the memory store, whenever no trade is between its
\* UpdateMarketState and its InsertLedgerEntry, the qYes of every market is
\* its initial qYes plus the quantities of its YES entries and its qNo the
\* initial qNo plus the quantities of its NO entries.
C33_QuantitiesAreLedgerSums ==
    (impl = "memory" /\ \A r \in Reqs : req[r].pc # "insert") =>
        \A id \in DOMAIN markets :
            /\ markets[id].qYes = FreshMarkets[id].qYes
                                    + TradedQty(ledger, id, "YES")
            /\ markets[id].qNo = FreshMarkets[id].qNo
                                   + TradedQty(ledger, id, "NO")

\* Two users have traded one market, no trade is between its two writes and
\* the requests arrived while another was in flight.
C33_Witness ==
    /\ \A r \in Reqs : req[r].pc # "insert"
    /\ Len(ledger) = 2
    /\ ledger[1].marketID = ledger[2].marketID
    /\ ledger[1].userID # ledger[2].userID
    /\ markets[ledger[1].marketID].qYes + markets[ledger[1].marketID].qNo
         = ledger[1].quantity + ledger[2].quantity


\* The step in which the InsertLedgerEntry of request r fails, after its
\* UpdateMarketState succeeded.
InsertFails(r) ==
    /\ req[r].pc = "insert"
    /\ req'[r].pc = "idle"
    /\ reply'.op = "ExecuteTrade"
    /\ reply'.error = "failed to record trade"

\* The markets as they were before request r updated the market it trades.
BeforeUpdate(r) ==
    LET m == req[r].market
    IN  [markets EXCEPT ![m.id].qYes = m.qYes, ![m.id].qNo = m.qNo,
                        ![m.id].priceYes = m.priceYes,
                        ![m.id].priceNo = m.priceNo]

\* The holdings of a list of positions: every field but the two that are
\* marked to the market price.
Holdings(positions) ==
    [id \in DOMAIN positions |->
        [positions[id] EXCEPT !.currentValue = 0, !.unrealizedPnL = 0]]

\* The failed trade of request r answers 500, leaves the market as updated
\* and the ledger as it was, and broadcasts nothing.
FailedInsertKeepsUpdate(r) ==
    LET rq == req[r]
        id == rq.market.id
    IN  /\ reply'.code = 500
        /\ markets' = markets
        /\ markets'[id].qYes = rq.calc.newQYes
        /\ markets'[id].qNo = rq.calc.newQNo
        /\ markets'[id].priceYes = rq.calc.newPriceYes
        /\ markets'[id].priceNo = rq.calc.newPriceNo
        /\ ledger' = ledger
        /\ broadcast' = broadcast
        /\ calls' = calls

\* C34 as stated: when InsertLedgerEntry fails after UpdateMarketState
\* succeeded, ExecuteTrade returns 500, the market keeps the updated
\* quantities and prices, the ledger and the derived positions and
\* exposures of every user are what they were before the trade, and no
\* message is broadcast.
C34_Stated ==
    [][\A r \in Reqs : InsertFails(r) =>
          /\ FailedInsertKeepsUpdate(r)
          /\ \A u \in Users :
                /\ StoreGetUserPositions(markets', ledger', u)
                     = StoreGetUserPositions(BeforeUpdate(r), ledger, u)
                /\ StoreGetUserCellExposures(markets', ledger', u)
                     = StoreGetUserCellExposures(BeforeUpdate(r), ledger, u)]_vars

\* C34: when InsertLedgerEntry fails after UpdateMarketState succeeded,
\* ExecuteTrade returns 500, the market keeps the updated quantities and
\* prices, the ledger, the exposures and the holdings of every position
\* (quantities, net quantity, cost basis) are what they were before the
\* trade, and no message is broadcast; the current value and the
\* unrealized P&L of a position on the market are those of the new price.
C34_FailedInsert ==
    [][\A r \in Reqs : InsertFails(r) =>
          /\ FailedInsertKeepsUpdate(r)
          /\ \A u \in Users :
                /\ Holdings(StoreGetUserPositions(markets', ledger', u))
                     = Holdings(StoreGetUserPositions(BeforeUpdate(r),
                                                      ledger, u))
                /\ StoreGetUserCellExposures(markets', ledger', u)
                     = StoreGetUserCellExposures(BeforeUpdate(r), ledger, u)
                /\ \A id \in DOMAIN StoreGetUserPositions(markets', ledger', u) :
                      LET p == StoreGetUserPositions(markets', ledger', u)[id]
                      IN  p.currentValue
                            = markets'[id].priceYes * p.yesQty
                              + (One - markets'[id].priceYes) * p.noQty]_vars

\* The trade of a user who holds a position on the market was answered
\* "failed to record trade": the market holds more than the ledger records.
C34_Witness ==
    /\ reply.op = "ExecuteTrade"
    /\ reply.code = 500
    /\ reply.error = "failed to record trade"
    /\ Len(ledger) = 1
    /\ ledger[1].marketID = reply.market.id
    /\ ledger[1].userID = reply.userID
    /\ markets[reply.market.id].qYes > TradedQty(ledger, reply.market.id, "YES")


\* The step in which the WriteMessage of the worker fails.
WriteFails ==
    /\ worker.pc = "write"
    /\ worker'.pc \in {"range", "select"}
    /\ conn[worker.to].peer = "gone"

\* C35: when a write of a broadcast message to a subscriber fails, the hub
\* closes the connection and deletes it from h.clients and the range goes
\* on with the same message for the clients not yet visited; the worker
\* leaves the range only when every client was visited; a write is only
\* ever made to a client of the hub, so none is made to the deleted
\* connection; and no connection is closed twice: the unregister request
\* of the deleted connection finds it gone and does nothing.
C35_FailedWriteRemoves ==
    /\ [][WriteFails =>
             /\ clients' = clients \ {worker.to}
             /\ conn'[worker.to].closes = Append(conn[worker.to].closes, "write")
             /\ \A c \in Conns \ {worker.to} : conn'[c] = conn[c]
             /\ worker.todo # {} =>
                   /\ worker'.pc = "range"
                   /\ worker'.todo = worker.todo
                   /\ worker'.msg = worker.msg]_vars
    /\ [][worker.pc \in {"range", "write"} /\ worker'.pc = "select"
             => worker.todo = {}]_vars
    /\ [](worker.pc = "write" => worker.to \in clients)
    /\ [](\A c \in Conns : Len(conn[c].closes) <= 1)
    /\ [][\A c \in Conns :
             (conn[c].state = "unregistering" /\ conn'[c].state = "closed"
              /\ c \notin clients)
                => clients' = clients /\ conn'[c].closes = conn[c].closes]_vars

\* A write to one connection failed and the hub closed and deleted it, the
\* other connection was written the message, and the unregister request of
\* the deleted connection has been served.
C35_Witness ==
    \E c \in Conns, o \in Conns :
        /\ c # o
        /\ conn[c].state = "closed"
        /\ conn[c].closes = <<"write">>
        /\ conn[c].frames = << >>
        /\ o \in clients
        /\ Len(calls) >= 1
        /\ conn[o].frames = <<calls[1].msg>>
        /\ worker.pc = "select"


\* C36: h.clients is written only under the exclusive lock: no ping
\* goroutine reads the map while the worker adds or deletes a connection,
\* so no read runs into a write and the runtime never ends the process for
\* a concurrent map read and map write.
C36_ExclusiveSetWrites ==
    /\ ~worker.raced
    /\ worker.fault # ErrConcurrentMap

\* C38: at most one goroutine writes to a connection at a time: the ping
\* ticker of a connection never writes its ping frame while the worker is
\* inside WriteMessage on that connection, so no frame is damaged and the
\* connection never panics for a concurrent write.
C38_OneWriter ==
    /\ ~worker.garbled
    /\ worker.fault # ErrConcurrentWrite


\* C37: every write of the worker to a connection ends, also to a
\* connection whose remote end never accepts data, so while the process
\* runs every message in the channel is eventually taken out and written,
\* and every connection waiting in h.register <- conn is eventually
\* registered.
C37_StalledWriteEnds ==
    /\ (worker.pc = "write") ~> (worker.pc # "write")
    /\ (broadcast # << >>) ~> (broadcast = << >> \/ ~Running)
    /\ \A c \in Conns :
          (conn[c].state = "registering")
             ~> (conn[c].state # "registering" \/ ~Running)


\* The slice v holds exactly the entries of led at the positions rows, each
\* once, in ascending order of timestamp.
ExactlyInTimestampOrder(v, led, rows) ==
    /\ Len(v.entries) = Cardinality(rows)
    /\ {v.index[k] : k \in 1..Len(v.index)} = rows
    /\ \A k \in 1..Len(v.entries) : v.entries[k] = led[v.index[k]]
    /\ \A i, j \in 1..Len(v.entries) :
          i < j => v.entries[i].timestamp <= v.entries[j].timestamp

\* A ledger read returns exactly the entries asked for in timestamp order.
ReadInTimestampOrder ==
    /\ fn'.name = "GetLedgerEntriesByMarket" =>
          ExactlyInTimestampOrder(view', ledger,
              {i \in 1..Len(ledger) : ledger[i].marketID = fn'.arg})
    /\ fn'.name = "GetLedgerEntriesByUser" =>
          ExactlyInTimestampOrder(view', ledger,
              {i \in 1..Len(ledger) : ledger[i].userID = fn'.arg})

\* The ledger reads of PostgresStore return the entries in timestamp order.
PostgresReadsInTimestampOrder ==
    [][impl = "postgres" => ReadInTimestampOrder]_vars

\* C39: GetLedgerEntriesByMarket and GetLedgerEntriesByUser return exactly
\* the entries of the market (of the user), in ascending order of
\* timestamp, whatever InsertLedgerEntry calls came before and whichever
\* store is used.
C39_ReadsInTimestampOrder == [][ReadInTimestampOrder]_vars


\* The message m reports the ledger entry e of a market of ms.
Reports(m, e, ms) ==
    /\ m.type = "trade_executed"
    /\ m.tradeID = e.id
    /\ m.marketID = e.marketID
    /\ m.contractID = e.contractID
    /\ m.side = e.side
    /\ m.quantity = e.quantity
    /\ m.h3CellID = ms[e.marketID].h3CellID

\* C40: a request of ExecuteTrade calls Broadcast at most once, in its last
\* step, and only when its ledger entry is appended: every call is the
\* trade_executed message of one entry of the ledger, with the market,
\* contract, cell, side and quantity of that entry, no two calls are for
\* one entry, and the prices of the message are those the trade wrote to
\* the market.
C40_MessageOfTrade ==
    /\ [](\A i \in 1..Len(calls) :
             \E k \in 1..Len(ledger) : Reports(calls[i].msg, ledger[k], markets))
    /\ [](\A i, j \in 1..Len(calls) :
             i # j => calls[i].msg.tradeID # calls[j].msg.tradeID)
    /\ [][calls' # calls =>
             \E r \in Reqs :
                /\ req[r].pc = "respond"
                /\ req'[r].pc = "idle"
                /\ reply'.op = "ExecuteTrade"
                /\ reply'.code = 200
                /\ Len(calls') = Len(calls) + 1
                /\ SubSeq(calls', 1, Len(calls)) = calls
                /\ LET m == calls'[Len(calls')].msg
                   IN  /\ m.tradeID = req[r].entryID
                       /\ m.priceYes = req[r].calc.newPriceYes
                       /\ m.priceNo = req[r].calc.newPriceNo
                       /\ m.priceYes = markets[m.marketID].priceYes
                       /\ m.priceNo = markets[m.marketID].priceNo]_vars

\* One trade was broadcast, with a price that its update stored, and a
\* later trade whose entry could not be inserted was answered 500 without
\* a call of Broadcast.
C40_Witness ==
    /\ Len(calls) = 1
    /\ Len(ledger) = 1
    /\ calls[1].msg.tradeID = ledger[1].id
    /\ calls[1].msg.priceYes # Half
    /\ reply.op = "ExecuteTrade"
    /\ reply.error = "failed to record trade"
    /\ markets[calls[1].msg.marketID].priceYes # calls[1].msg.priceYes

====
